---- MODULE Spec2Model ----
(***************************************************************************)
(* A model of PDF Textorizer's region engine: the column detector          *)
(* (multi_column.py), the per-page region store (pdffile.py), the          *)
(* regions-file schema (regions_schema.py) and the main window's handlers  *)
(* for opening, loading and saving (mainwindow.py).                        *)
(*                                                                         *)
(* Python lists are sequences (index i of the code is index i+1 here), a   *)
(* dict is a function whose DOMAIN is its key set, and a raised exception  *)
(* is a result record whose exc field names it.                            *)
(***************************************************************************)
EXTENDS Integers, Sequences, FiniteSets, TLC

VARIABLES
    regions,   \* PDFFile._regions: page key -> sequence of rectangles
    op,        \* the store operation that ran last, with its arguments
    ret,       \* what that operation returned or raised
    detect,    \* the detector runs that operation made (sequence of calls)
    lastGet,   \* history: page -> list get_regions returned since the last mutating operation
    det,       \* the column detector's working state (one run of column_boxes)
    win        \* the main window's fields, when the store is driven by the main window

vars == <<regions, op, ret, detect, lastGet, det, win>>

(***************************************************************************)
(* Results of a call: a value, or a raised exception.                      *)
(***************************************************************************)
Ok(v) == [exc |-> "none", none |-> FALSE, val |-> v, msg |-> ""]
OkNone == [exc |-> "none", none |-> TRUE, val |-> <<>>, msg |-> ""]
Raise(e, m) == [exc |-> e, none |-> FALSE, val |-> <<>>, msg |-> m]

Min(a, b) == IF a <= b THEN a ELSE b
Max(a, b) == IF a >= b THEN a ELSE b
Abs(a) == IF a < 0 THEN -a ELSE a

RemoveAt(s, i) == [k \in 1..(Len(s) - 1) |-> IF k < i THEN s[k] ELSE s[k + 1]]
ReplaceAt(s, i, v) == [k \in 1..Len(s) |-> IF k = i THEN v ELSE s[k]]
Range(s) == {s[k] : k \in 1..Len(s)}

(***************************************************************************)
(* Geometry: fitz.IRect as the code uses it.                               *)
(***************************************************************************)
IRect(a, b, c, d) == [x0 |-> a, y0 |-> b, x1 |-> c, y1 |-> d]

\* fitz.EMPTY_IRECT(): an inverted rectangle
EMPTY_IRECT == IRect(2147483520, 2147483520, -2147483647, -2147483647)

\* None, as an item of a list of rectangles
None == [none |-> TRUE]

is_empty(r) == r.x0 >= r.x1 \/ r.y0 >= r.y1

\* a & b
RectAnd(a, b) ==
    IF is_empty(b) THEN EMPTY_IRECT
    ELSE IF is_empty(a) THEN a
    ELSE IRect(Max(a.x0, b.x0), Max(a.y0, b.y0), Min(a.x1, b.x1), Min(a.y1, b.y1))

\* a | b
RectOr(a, b) ==
    IF is_empty(b) THEN a
    ELSE IF is_empty(a) THEN b
    ELSE IRect(Min(a.x0, b.x0), Min(a.y0, b.y0), Max(a.x1, b.x1), Max(a.y1, b.y1))

\* inner in outer, for two rectangles
RectIn(inner, outer) ==
    /\ outer.x0 <= inner.x0 /\ inner.x0 <= inner.x1 /\ inner.x1 <= outer.x1
    /\ outer.y0 <= inner.y0 /\ inner.y0 <= inner.y1 /\ inner.y1 <= outer.y1

\* (x, y) in r
PointIn(x, y, r) == x >= r.x0 /\ x < r.x1 /\ y >= r.y0 /\ y < r.y1

\* two rectangles share area
Overlap(a, b) == ~is_empty(RectAnd(a, b))

(***************************************************************************)
(* Stable sort by a key (Python's list.sort / sorted): keys are tuples of  *)
(* integers compared lexicographically, k[i] being the key of s[i].        *)
(***************************************************************************)
RECURSIVE KeyLess(_, _)
KeyLess(a, b) ==
    IF a = <<>> \/ b = <<>> THEN FALSE
    ELSE IF a[1] # b[1] THEN a[1] < b[1]
    ELSE KeyLess(Tail(a), Tail(b))

\* insert the pair e after every pair whose key is not greater
RECURSIVE InsertPair(_, _)
InsertPair(s, e) ==
    IF s = <<>> THEN <<e>>
    ELSE IF ~KeyLess(e.key, s[Len(s)].key) THEN Append(s, e)
    ELSE Append(InsertPair(SubSeq(s, 1, Len(s) - 1), e), s[Len(s)])

RECURSIVE SortPairs(_)
SortPairs(s) ==
    IF s = <<>> THEN <<>>
    ELSE InsertPair(SortPairs(SubSeq(s, 1, Len(s) - 1)), s[Len(s)])

SortByKeys(s, k) ==
    LET pairs == [i \in 1..Len(s) |-> [key |-> k[i], val |-> s[i]]]
        sorted == SortPairs(pairs)
    IN [i \in 1..Len(s) |-> sorted[i].val]

(***************************************************************************)
(* A page as the PDF provider presents it: its size, the boxes of its      *)
(* vector drawings and images, and its text blocks.  A block is a sequence *)
(* of lines; a line has a box, a direction ("h" is (1, 0)) and the number  *)
(* of characters its spans hold after stripping.                           *)
(***************************************************************************)
Line(bbox, dir, chars) == [bbox |-> bbox, dir |-> dir, chars |-> chars]

RECURSIVE UnionAll(_)
UnionAll(rs) ==
    IF rs = <<>> THEN EMPTY_IRECT
    ELSE RectOr(UnionAll(SubSeq(rs, 1, Len(rs) - 1)), rs[Len(rs)])

\* b["bbox"]: the box around the block's lines
BlockBBox(b) == UnionAll([i \in 1..Len(b) |-> b[i].bbox])

\* clip = +page.rect, less the four margins
PageClip(page, footer_margin, header_margin, left_margin, right_margin) ==
    IRect(left_margin, header_margin, page.width - right_margin, page.height - footer_margin)

RECURSIVE SelectLines(_, _)
SelectLines(b, clip) ==
    IF b = <<>> THEN <<>>
    ELSE LET rest == SelectLines(SubSeq(b, 1, Len(b) - 1), clip)
             l == b[Len(b)]
         IN IF Overlap(l.bbox, clip) THEN Append(rest, l) ELSE rest

\* page.get_text("dict", clip=clip)["blocks"]: the text that lies in the clip
RECURSIVE GetTextBlocks(_, _)
GetTextBlocks(blocks, clip) ==
    IF blocks = <<>> THEN <<>>
    ELSE LET rest == GetTextBlocks(SubSeq(blocks, 1, Len(blocks) - 1), clip)
             b == SelectLines(blocks[Len(blocks)], clip)
         IN IF b = <<>> THEN rest ELSE Append(rest, b)

(***************************************************************************)
(* column_boxes and its helpers.                                           *)
(***************************************************************************)
MinOf(S) == CHOOSE i \in S : \A k \in S : i <= k

\* 1-based number of the first box that contains bb, else 0
in_bbox(bb, bboxes) ==
    LET hits == {i \in 1..Len(bboxes) : RectIn(bb, bboxes[i])}
    IN IF hits = {} THEN 0 ELSE MinOf(hits)

intersects_bboxes(bb, bboxes) ==
    \E i \in 1..Len(bboxes) : ~is_empty(RectAnd(bb, bboxes[i]))

\* the loop returns False at the first item that fails the test
can_extend(temp, bb, bboxlist, vert_bboxes) ==
    \A k \in 1..Len(bboxlist) :
        /\ ~intersects_bboxes(temp, vert_bboxes)
        /\ \/ bboxlist[k] = None
           \/ bboxlist[k] = bb
           \/ is_empty(RectAnd(temp, bboxlist[k]))

\* the iteration as it would be without the test against the other candidates
extend_one_unchecked(bboxes, i, width, path_bboxes, vert_bboxes, img_bboxes) ==
    LET bb == bboxes[i]
        temp == [bb EXCEPT !.x1 = width]
    IN IF in_bbox(bb, path_bboxes) # 0 THEN bboxes
       ELSE IF in_bbox(bb, img_bboxes) # 0 THEN bboxes
       ELSE IF intersects_bboxes(temp, path_bboxes \o vert_bboxes \o img_bboxes) THEN bboxes
       ELSE ReplaceAt(bboxes, i, temp)

\* one iteration of extend_right's loop, on the list as changed so far
extend_one(bboxes, i, width, path_bboxes, vert_bboxes, img_bboxes) ==
    LET bb == bboxes[i]
        temp == [bb EXCEPT !.x1 = width]
    IN IF in_bbox(bb, path_bboxes) # 0 THEN bboxes
       ELSE IF in_bbox(bb, img_bboxes) # 0 THEN bboxes
       ELSE IF intersects_bboxes(temp, path_bboxes \o vert_bboxes \o img_bboxes) THEN bboxes
       ELSE IF can_extend(temp, bb, bboxes, vert_bboxes) THEN ReplaceAt(bboxes, i, temp)
       ELSE bboxes

RECURSIVE extend_loop(_, _, _, _, _, _)
extend_loop(bboxes, i, width, path_bboxes, vert_bboxes, img_bboxes) ==
    IF i > Len(bboxes) THEN bboxes
    ELSE extend_loop(extend_one(bboxes, i, width, path_bboxes, vert_bboxes, img_bboxes),
                     i + 1, width, path_bboxes, vert_bboxes, img_bboxes)

extend_right(bboxes, width, path_bboxes, vert_bboxes, img_bboxes) ==
    extend_loop(bboxes, 1, width, path_bboxes, vert_bboxes, img_bboxes)

\* the first pass of clean_nblocks: i runs from len - 1 down to 0, and at i = 0
\* nblocks[i - 1] is the last item of the list
RECURSIVE dedup_loop(_, _)
dedup_loop(nblocks, i) ==
    IF i < 0 THEN nblocks
    ELSE LET bb1 == nblocks[i + 1]
             bb0 == IF i = 0 THEN nblocks[Len(nblocks)] ELSE nblocks[i]
         IN dedup_loop(IF bb0 = bb1 THEN RemoveAt(nblocks, i + 1) ELSE nblocks, i - 1)

\* nblocks[i0 : i1 + 1] = sorted(nblocks[i0 : i1 + 1], key=lambda b: b.x0)
sort_segment(nblocks, i0, i1) ==
    LET seg == SubSeq(nblocks, i0 + 1, i1 + 1)
        srt == SortByKeys(seg, [k \in 1..Len(seg) |-> <<seg[k].x0>>])
    IN [k \in 1..Len(nblocks) |->
            IF k >= i0 + 1 /\ k <= i1 + 1 THEN srt[k - i0] ELSE nblocks[k]]

\* a repair that compares each bottom with the bottom of the block before it
RECURSIVE repair_loop_chained(_, _, _, _, _)
repair_loop_chained(nblocks, i, y1, i0, i1) ==
    IF i > Len(nblocks) - 1
    THEN IF i1 > i0 THEN sort_segment(nblocks, i0, i1) ELSE nblocks
    ELSE IF Abs(nblocks[i + 1].y1 - y1) > 10
         THEN repair_loop_chained(IF i1 > i0 THEN sort_segment(nblocks, i0, i1) ELSE nblocks,
                                  i + 1, nblocks[i + 1].y1, i, i)
         ELSE repair_loop_chained(nblocks, i + 1, nblocks[i + 1].y1, i0, i)

\* the second pass of clean_nblocks, from index i on (0-based, as in the code)
RECURSIVE repair_loop(_, _, _, _, _)
repair_loop(nblocks, i, y1, i0, i1) ==
    IF i > Len(nblocks) - 1
    THEN IF i1 > i0 THEN sort_segment(nblocks, i0, i1) ELSE nblocks
    ELSE LET b1 == nblocks[i + 1]
         IN IF Abs(b1.y1 - y1) > 10
            THEN repair_loop(IF i1 > i0 THEN sort_segment(nblocks, i0, i1) ELSE nblocks,
                             i + 1, b1.y1, i, i)
            ELSE repair_loop(nblocks, i + 1, y1, i0, i)

clean_nblocks(nblocks) ==
    IF Len(nblocks) < 2 THEN Ok(nblocks)
    ELSE LET d == dedup_loop(nblocks, Len(nblocks) - 1)
         IN IF d = <<>> THEN Raise("IndexError", "list index out of range")    \* nblocks[0], list empty
            ELSE Ok(repair_loop(d, 1, d[1].y1, 0, -1))

\* srect: the union of the boxes of the lines with more than one character
RECURSIVE line_union(_)
line_union(b) ==
    IF b = <<>> THEN EMPTY_IRECT
    ELSE LET rest == line_union(SubSeq(b, 1, Len(b) - 1))
             l == b[Len(b)]
         IN IF l.chars > 1 THEN RectOr(rest, l.bbox) ELSE rest

\* "Make block rectangles": the candidates (bboxes) and the boxes of
\* non-horizontal text (vert_bboxes), in block order
RECURSIVE make_block_rects(_, _, _)
make_block_rects(blocks, img_bboxes, no_image_text) ==
    IF blocks = <<>> THEN [bboxes |-> <<>>, vert_bboxes |-> <<>>]
    ELSE LET acc == make_block_rects(SubSeq(blocks, 1, Len(blocks) - 1), img_bboxes, no_image_text)
             b == blocks[Len(blocks)]
             bbox == BlockBBox(b)
             srect == line_union(b)
         IN IF no_image_text /\ in_bbox(bbox, img_bboxes) # 0 THEN acc
            ELSE IF b[1].dir # "h" THEN [acc EXCEPT !.vert_bboxes = Append(@, bbox)]
            ELSE IF ~is_empty(srect) THEN [acc EXCEPT !.bboxes = Append(@, srect)]
            ELSE acc

\* path_bboxes.sort(key=lambda b: (b.y0, b.x0))
sort_paths(paths) ==
    SortByKeys(paths, [k \in 1..Len(paths) |-> <<paths[k].y0, paths[k].x0>>])

\* a sort that puts the boxes on a background before the boxes on none
sort_bboxes_background_first(bboxes, path_bboxes) ==
    SortByKeys(bboxes, [k \in 1..Len(bboxes) |->
                            <<IF in_bbox(bboxes[k], path_bboxes) = 0 THEN Len(path_bboxes) + 1
                              ELSE in_bbox(bboxes[k], path_bboxes),
                              bboxes[k].y0, bboxes[k].x0>>])

\* bboxes.sort(key=lambda k: (in_bbox(k, path_bboxes), k.y0, k.x0))
sort_bboxes(bboxes, path_bboxes) ==
    SortByKeys(bboxes, [k \in 1..Len(bboxes) |->
                            <<in_bbox(bboxes[k], path_bboxes), bboxes[k].y0, bboxes[k].x0>>])

\* the iteration as it would be without the test against the candidates that remain
merge_step_unchecked(st, i, path_bboxes, vert_bboxes) ==
    LET nblocks == st.nblocks
        bboxes == st.bboxes
        bb == bboxes[i]
        IsTarget(j) ==
            LET nbb == nblocks[j]
            IN /\ ~(nbb.x1 < bb.x0 \/ bb.x1 < nbb.x0)
               /\ in_bbox(nbb, path_bboxes) = in_bbox(bb, path_bboxes)
               /\ can_extend(RectOr(bb, nbb), nbb, nblocks, vert_bboxes)
        targets == {j \in 1..Len(nblocks) : IsTarget(j)}
        check == targets # {}
        j == IF check THEN MinOf(targets) ELSE Len(nblocks) + 1
        added == IF check THEN nblocks ELSE Append(nblocks, bb)
        temp == IF check THEN RectOr(bb, nblocks[j]) ELSE bb
    IN [nblocks |-> ReplaceAt(added, j, temp),
        bboxes |-> ReplaceAt(bboxes, i, None)]

\* the iteration as it would be without the test that keeps columns apart
merge_step_across(st, i, path_bboxes, vert_bboxes) ==
    LET nblocks == st.nblocks
        bboxes == st.bboxes
        bb == bboxes[i]
        IsTarget(j) ==
            LET nbb == nblocks[j]
            IN /\ in_bbox(nbb, path_bboxes) = in_bbox(bb, path_bboxes)
               /\ can_extend(RectOr(bb, nbb), nbb, nblocks, vert_bboxes)
        targets == {j \in 1..Len(nblocks) : IsTarget(j)}
        check == targets # {}
        j == IF check THEN MinOf(targets) ELSE Len(nblocks) + 1
        added == IF check THEN nblocks ELSE Append(nblocks, bb)
        temp == IF check THEN RectOr(bb, nblocks[j]) ELSE bb
    IN [nblocks |-> IF ~can_extend(temp, bb, bboxes, vert_bboxes)
                    THEN Append(added, bb)
                    ELSE ReplaceAt(added, j, temp),
        bboxes |-> ReplaceAt(bboxes, i, None)]

\* the iteration as it would be if a box that may not be joined were dropped
merge_step_dropping(st, i, path_bboxes, vert_bboxes) ==
    LET nblocks == st.nblocks
        bboxes == st.bboxes
        bb == bboxes[i]
        IsTarget(j) ==
            LET nbb == nblocks[j]
            IN /\ ~(nbb.x1 < bb.x0 \/ bb.x1 < nbb.x0)
               /\ in_bbox(nbb, path_bboxes) = in_bbox(bb, path_bboxes)
               /\ can_extend(RectOr(bb, nbb), nbb, nblocks, vert_bboxes)
        targets == {j \in 1..Len(nblocks) : IsTarget(j)}
        check == targets # {}
        j == IF check THEN MinOf(targets) ELSE Len(nblocks) + 1
        added == IF check THEN nblocks ELSE Append(nblocks, bb)
        temp == IF check THEN RectOr(bb, nblocks[j]) ELSE bb
    IN [nblocks |-> IF ~can_extend(temp, bb, bboxes, vert_bboxes)
                    THEN added
                    ELSE ReplaceAt(added, j, temp),
        bboxes |-> ReplaceAt(bboxes, i, None)]

\* one iteration of the join loop: bb = bboxes[i] (i is 1-based here),
\* st.nblocks the blocks so far, st.bboxes the old boxes with None for the used ones
merge_step(st, i, path_bboxes, vert_bboxes) ==
    LET nblocks == st.nblocks
        bboxes == st.bboxes
        bb == bboxes[i]
        IsTarget(j) ==
            LET nbb == nblocks[j]
            IN /\ ~(nbb.x1 < bb.x0 \/ bb.x1 < nbb.x0)
               /\ in_bbox(nbb, path_bboxes) = in_bbox(bb, path_bboxes)
               /\ can_extend(RectOr(bb, nbb), nbb, nblocks, vert_bboxes)
        targets == {j \in 1..Len(nblocks) : IsTarget(j)}
        check == targets # {}
        j == IF check THEN MinOf(targets) ELSE Len(nblocks) + 1
        added == IF check THEN nblocks ELSE Append(nblocks, bb)
        temp == IF check THEN RectOr(bb, nblocks[j]) ELSE bb
    IN [nblocks |-> IF ~can_extend(temp, bb, bboxes, vert_bboxes)
                    THEN Append(added, bb)
                    ELSE ReplaceAt(added, j, temp),
        bboxes |-> ReplaceAt(bboxes, i, None)]

RECURSIVE merge_loop(_, _, _, _)
merge_loop(st, i, path_bboxes, vert_bboxes) ==
    IF i > Len(st.bboxes) THEN st
    ELSE merge_loop(merge_step(st, i, path_bboxes, vert_bboxes), i + 1, path_bboxes, vert_bboxes)

\* nblocks = [bboxes[0]]; bboxes = bboxes[1:]
merge_start(bboxes) == [nblocks |-> <<bboxes[1]>>, bboxes |-> Tail(bboxes)]

join_bboxes(bboxes, path_bboxes, vert_bboxes) ==
    merge_loop(merge_start(bboxes), 1, path_bboxes, vert_bboxes).nblocks

\* the candidates as they would be if the extension went to the right edge of
\* the clip
candidates_clip(page, footer_margin, header_margin, left_margin, right_margin, no_image_text) ==
    LET clip == PageClip(page, footer_margin, header_margin, left_margin, right_margin)
        path_bboxes == sort_paths(page.paths)
        img_bboxes == page.images
        made == make_block_rects(GetTextBlocks(page.blocks, clip), img_bboxes, no_image_text)
        sorted == sort_bboxes(made.bboxes, path_bboxes)
    IN [path_bboxes |-> path_bboxes, img_bboxes |-> img_bboxes,
        vert_bboxes |-> made.vert_bboxes, made |-> made.bboxes, sorted |-> sorted,
        bboxes |-> extend_right(sorted, clip.x1, path_bboxes, made.vert_bboxes, img_bboxes)]

\* everything column_boxes computes before the join: the obstacles and the
\* sorted, extended candidates
candidates(page, footer_margin, header_margin, left_margin, right_margin, no_image_text) ==
    LET clip == PageClip(page, footer_margin, header_margin, left_margin, right_margin)
        path_bboxes == sort_paths(page.paths)
        img_bboxes == page.images
        made == make_block_rects(GetTextBlocks(page.blocks, clip), img_bboxes, no_image_text)
        sorted == sort_bboxes(made.bboxes, path_bboxes)
    IN [path_bboxes |-> path_bboxes, img_bboxes |-> img_bboxes,
        vert_bboxes |-> made.vert_bboxes, made |-> made.bboxes, sorted |-> sorted,
        bboxes |-> extend_right(sorted, page.width, path_bboxes, made.vert_bboxes, img_bboxes)]

\* from the early return on: the join and the cleaning of the candidates c
join_and_clean(c) ==
    IF c.bboxes = <<>> THEN Ok(<<>>)
    ELSE clean_nblocks(join_bboxes(c.bboxes, c.path_bboxes, c.vert_bboxes))

column_boxes(page, footer_margin, header_margin, left_margin, right_margin, no_image_text) ==
    join_and_clean(candidates(page, footer_margin, header_margin, left_margin, right_margin,
                              no_image_text))

(***************************************************************************)
(* The open document: what PDFFile.__init__ reads from the file and what   *)
(* the PDF provider answers for each page.                                 *)
(***************************************************************************)
PageWidth == 60
PageHeight == 60
MaxRegions == 3

DocName == "doc.pdf"
DocChecksum == "sha1-of-doc"

H(r) == <<Line(r, "h", 5)>>

PlainPage(blocks) ==
    [width |-> PageWidth, height |-> PageHeight, paths |-> <<>>, images |-> <<>>,
     blocks |-> blocks]

\* the document's pages: two columns side by side, then a header line above one column
DocPages ==
    <<PlainPage(<<H(IRect(5, 10, 25, 50)), H(IRect(35, 10, 55, 50))>>),
      PlainPage(<<H(IRect(5, 2, 55, 8)), H(IRect(5, 10, 55, 50))>>)>>

\* self._doc.load_page(page), self._doc.page_count
DocPage(p) == DocPages[p + 1]
page_count == Len(DocPages)

\* margins and the ignore-images option, as get_regions takes them
Margins(top, bottom, left, right, nit) ==
    [top |-> top, bottom |-> bottom, left |-> left, right |-> right, no_image_text |-> nit]
DefaultMargins == Margins(0, 0, 0, 0, FALSE)

(***************************************************************************)
(* The region store.  Every operation is an operator from the cache (and   *)
(* its arguments) to the cache afterwards, the result, and the detector    *)
(* calls it made.                                                          *)
(***************************************************************************)
EmptyDict == <<>>
DictSet(d, k, v) == [x \in DOMAIN d \cup {k} |-> IF x = k THEN v ELSE d[x]]
DictPop(d, k) == [x \in DOMAIN d \ {k} |-> d[x]]
\* a | b
DictMerge(a, b) == [x \in DOMAIN a \cup DOMAIN b |-> IF x \in DOMAIN b THEN b[x] ELSE a[x]]

Out(regs, r, calls) == [regions |-> regs, ret |-> r, detect |-> calls]

clear_all_regions(regs) == Out(EmptyDict, OkNone, <<>>)

\* clear_regions as it would be if it emptied the page's list and kept the entry
clear_regions_empty(regs, page) ==
    IF page \in DOMAIN regs
    THEN Out(DictSet(regs, page, <<>>), OkNone, <<>>)
    ELSE Out(regs, Raise("KeyError", "page"), <<>>)

\* dict.pop(page) raises KeyError when the key is missing
clear_regions(regs, page) ==
    IF page \in DOMAIN regs
    THEN Out(DictPop(regs, page), OkNone, <<>>)
    ELSE Out(regs, Raise("KeyError", "page"), <<>>)

\* mark_page_empty as it would be if it dropped the page's entry
mark_page_empty_drop(regs, page) ==
    IF page < 0 \/ page >= page_count THEN Out(regs, OkNone, <<>>)
    ELSE Out(DictPop(regs, page), OkNone, <<>>)

mark_page_empty(regs, page) ==
    IF page < 0 \/ page >= page_count THEN Out(regs, OkNone, <<>>)
    ELSE Out(DictSet(regs, page, <<>>), OkNone, <<>>)

mark_all_pages_empty(regs) ==
    Out([x \in DOMAIN regs \cup 0..(page_count - 1) |->
            IF x \in 0..(page_count - 1) THEN <<>> ELSE regs[x]], OkNone, <<>>)

\* the detector's call for a page with these margins
detect_page(page, m) ==
    column_boxes(DocPage(page), m.bottom, m.top, m.left, m.right, m.no_image_text)

\* self._regions[page] = column_boxes(...), boxes being what the call gave
cache_boxes(regs, page, m, boxes) ==
    IF boxes.exc # "none" THEN Out(regs, boxes, <<[page |-> page, margins |-> m]>>)
    ELSE Out(DictSet(regs, page, boxes.val), Ok(boxes.val), <<[page |-> page, margins |-> m]>>)

\* get_regions as it would be without the test page < 0: a negative page number
\* counts from the end of the document
get_regions_negative(regs, page, m) ==
    IF page >= page_count THEN Out(regs, OkNone, <<>>)
    ELSE IF page \notin DOMAIN regs
    THEN cache_boxes(regs, page, m, detect_page(page % page_count, m))
    ELSE Out(regs, Ok(regs[page]), <<>>)

\* get_regions as it would be if it ran the detector on every call
get_regions_redetect(regs, page, m) ==
    IF page < 0 \/ page >= page_count THEN Out(regs, OkNone, <<>>)
    ELSE cache_boxes(regs, page, m, detect_page(page, m))

\* get_regions as it would be if the cache were used for the default margins only
get_regions_margins(regs, page, m) ==
    IF page < 0 \/ page >= page_count THEN Out(regs, OkNone, <<>>)
    ELSE IF page \notin DOMAIN regs \/ m # DefaultMargins
    THEN cache_boxes(regs, page, m, detect_page(page, m))
    ELSE Out(regs, Ok(regs[page]), <<>>)

get_regions(regs, page, m) ==
    IF page < 0 \/ page >= page_count THEN Out(regs, OkNone, <<>>)
    ELSE IF page \notin DOMAIN regs THEN cache_boxes(regs, page, m, detect_page(page, m))
    ELSE Out(regs, Ok(regs[page]), <<>>)

\* len(self.get_regions(page) or [])
LenOrEmpty(g) == IF g.ret.none THEN 0 ELSE Len(g.ret.val)

\* the clamp as it would be if it let a coordinate reach the page's size
Clamp_to_size(v, size) == Max(0, Min(v, size))

\* max(0, min(v, size - 1))
Clamp(v, size) == Max(0, Min(v, size - 1))

\* remove_region as it would be if it popped the last region, whatever the index
remove_from_last(g, page, region) ==
    IF g.ret.exc # "none" THEN g
    ELSE IF region >= LenOrEmpty(g) THEN Out(g.regions, OkNone, g.detect)
    ELSE Out(DictSet(g.regions, page, RemoveAt(g.ret.val, Len(g.ret.val))), OkNone, g.detect)

\* remove_region, g being what get_regions gave
remove_from(g, page, region) ==
    IF g.ret.exc # "none" THEN g
    ELSE IF region >= LenOrEmpty(g) THEN Out(g.regions, OkNone, g.detect)
    ELSE Out(DictSet(g.regions, page, RemoveAt(g.ret.val, region + 1)), OkNone, g.detect)

remove_region(regs, page, region) ==
    IF page < 0 \/ page >= page_count \/ region < 0 THEN Out(regs, OkNone, <<>>)
    ELSE remove_from(get_regions(regs, page, DefaultMargins), page, region)

\* self.get_regions(page).append(...), g being what get_regions gave
append_to(g, page, r) ==
    IF g.ret.exc # "none" THEN g
    ELSE Out(DictSet(g.regions, page, Append(g.ret.val, r)), OkNone, g.detect)

\* add_region, the coordinates clamped to the page
add_clamped(regs, page, l, t, r, b) ==
    IF l >= r \/ t >= b THEN Out(regs, OkNone, <<>>)
    ELSE append_to(get_regions(regs, page, DefaultMargins), page, IRect(l, t, r, b))

\* add_region as it would be if the rectangle were tested before it is clamped
add_region_unclamped_test(regs, page, left, top, right, bottom) ==
    IF page < 0 \/ page >= page_count THEN Out(regs, OkNone, <<>>)
    ELSE IF left >= right \/ top >= bottom THEN Out(regs, OkNone, <<>>)
    ELSE append_to(get_regions(regs, page, DefaultMargins), page,
                   IRect(Clamp(left, DocPage(page).width), Clamp(top, DocPage(page).height),
                         Clamp(right, DocPage(page).width), Clamp(bottom, DocPage(page).height)))

add_region(regs, page, left, top, right, bottom) ==
    IF page < 0 \/ page >= page_count THEN Out(regs, OkNone, <<>>)
    ELSE add_clamped(regs, page,
                     Clamp(left, DocPage(page).width), Clamp(top, DocPage(page).height),
                     Clamp(right, DocPage(page).width), Clamp(bottom, DocPage(page).height))

\* modify_region, g being what get_regions gave and the coordinates clamped
replace_in(g, page, region, l, t, r, b) ==
    IF g.ret.exc # "none" THEN g
    ELSE IF region >= LenOrEmpty(g) THEN Out(g.regions, OkNone, g.detect)
    ELSE IF l >= r \/ t >= b THEN Out(g.regions, OkNone, g.detect)
    ELSE Out(DictSet(g.regions, page, ReplaceAt(g.ret.val, region + 1, IRect(l, t, r, b))),
             OkNone, g.detect)

modify_region(regs, page, region, left, top, right, bottom) ==
    IF page < 0 \/ page >= page_count \/ region < 0 THEN Out(regs, OkNone, <<>>)
    ELSE replace_in(get_regions(regs, page, DefaultMargins), page, region,
                    Clamp(left, DocPage(page).width), Clamp(top, DocPage(page).height),
                    Clamp(right, DocPage(page).width), Clamp(bottom, DocPage(page).height))

\* the swap as it would be if only the first of the two items were assigned
Swap_overwrite(s, i, k) == [x \in 1..Len(s) |-> IF x = i + 1 THEN s[k + 1] ELSE s[x]]

\* swap the items at 0-based indexes i and k
Swap(s, i, k) ==
    [x \in 1..Len(s) |-> IF x = i + 1 THEN s[k + 1] ELSE IF x = k + 1 THEN s[i + 1] ELSE s[x]]

\* the loops of reorder_region as they would be with "if" in place of "while"
reorder_loop_once(list, region, direction) ==
    IF direction < 0 /\ region # 0
    THEN [list |-> Swap(list, region - 1, region), region |-> region - 1]
    ELSE IF direction > 0 /\ region < Len(list) - 1
    THEN [list |-> Swap(list, region + 1, region), region |-> region + 1]
    ELSE [list |-> list, region |-> region]

\* the two while loops of reorder_region
RECURSIVE reorder_loop(_, _, _)
reorder_loop(list, region, direction) ==
    IF direction < 0 /\ region # 0
    THEN reorder_loop(Swap(list, region - 1, region), region - 1, direction + 1)
    ELSE IF direction > 0 /\ region < Len(list) - 1
    THEN reorder_loop(Swap(list, region + 1, region), region + 1, direction - 1)
    ELSE [list |-> list, region |-> region]

\* the list as reordered (moved) stored for the page, and the new index returned
store_moved(g, page, moved) == Out(DictSet(g.regions, page, moved.list), Ok(moved.region), g.detect)

\* reorder_region as it would be if it returned the index asked for, not the
\* index reached
reorder_in_unclamped(g, page, region, direction) ==
    IF g.ret.exc # "none" THEN g
    ELSE IF region >= LenOrEmpty(g) THEN Out(g.regions, Ok(region), g.detect)
    ELSE Out(DictSet(g.regions, page, reorder_loop(g.ret.val, region, direction).list),
             Ok(region + direction), g.detect)

\* reorder_region, g being what get_regions gave
reorder_in(g, page, region, direction) ==
    IF g.ret.exc # "none" THEN g
    ELSE IF region >= LenOrEmpty(g) THEN Out(g.regions, Ok(region), g.detect)
    ELSE store_moved(g, page, reorder_loop(g.ret.val, region, direction))

reorder_region(regs, page, region, direction) ==
    IF page < 0 \/ page >= page_count \/ region < 0 THEN Out(regs, Ok(region), <<>>)
    ELSE reorder_in(get_regions(regs, page, DefaultMargins), page, region, direction)

\* find_region as it would be if a later match replaced an earlier one
first_hit_last(hits) == IF hits = {} THEN -1 ELSE (CHOOSE i \in hits : \A k \in hits : i >= k) - 1

\* the 0-based number of the first region that holds the point, else -1
first_hit(hits) == IF hits = {} THEN -1 ELSE MinOf(hits) - 1

\* find_region, g being what get_regions gave
find_in(g, x, y) ==
    IF g.ret.exc # "none" THEN g
    ELSE Out(g.regions,
             Ok(first_hit({i \in 1..Len(g.ret.val) : PointIn(x, y, g.ret.val[i])})),
             g.detect)

find_region(regs, page, x, y) == find_in(get_regions(regs, page, DefaultMargins), x, y)

(***************************************************************************)
(* Text conversion.  The provider's text for a rectangle is a sequence of  *)
(* tokens: words (which name the page and rectangle they were read from),  *)
(* spaces and newlines.                                                    *)
(***************************************************************************)
Word(page, r) == [t |-> "word", page |-> page, rect |-> r]
SP == [t |-> "sp"]
NL == [t |-> "nl"]

\* p.get_text(clip=region, sort=True): a wrapped line and a last line
ProviderText(page, r) == <<Word(page, r), SP, NL, Word(page, r), NL>>

\* text.replace(" \n", " ")
RECURSIVE ReplaceSpNl(_)
ReplaceSpNl(text) ==
    IF Len(text) < 2 THEN text
    ELSE IF text[1] = SP /\ text[2] = NL THEN <<SP>> \o ReplaceSpNl(SubSeq(text, 3, Len(text)))
    ELSE <<text[1]>> \o ReplaceSpNl(Tail(text))

convert_rect_to_text(page, r, concat_paragraphs) ==
    IF concat_paragraphs THEN ReplaceSpNl(ProviderText(page, r)) ELSE ProviderText(page, r)

\* convert_region_to_text, g being what get_regions gave
region_text(g, page, region, concat_paragraphs) ==
    IF g.ret.exc # "none" THEN g
    ELSE IF region >= LenOrEmpty(g) THEN Out(g.regions, Ok(<<>>), g.detect)
    ELSE Out(g.regions,
             Ok(convert_rect_to_text(page, g.ret.val[region + 1], concat_paragraphs)),
             g.detect)

convert_region_to_text(regs, page, region, concat_paragraphs) ==
    IF page < 0 \/ page >= page_count \/ region < 0 THEN Out(regs, Ok(<<>>), <<>>)
    ELSE region_text(get_regions(regs, page, DefaultMargins), page, region, concat_paragraphs)

\* the page's text as it would be if the regions were taken from the last to the first
RECURSIVE page_text_reversed(_, _, _)
page_text_reversed(page, list, concat_paragraphs) ==
    IF list = <<>> THEN <<>>
    ELSE convert_rect_to_text(page, list[Len(list)], concat_paragraphs) \o <<NL>>
         \o page_text_reversed(page, SubSeq(list, 1, Len(list) - 1), concat_paragraphs)

RECURSIVE page_text(_, _, _)
page_text(page, list, concat_paragraphs) ==
    IF list = <<>> THEN <<>>
    ELSE page_text(page, SubSeq(list, 1, Len(list) - 1), concat_paragraphs)
         \o convert_rect_to_text(page, list[Len(list)], concat_paragraphs) \o <<NL>>

\* convert_page_to_text, g being what get_regions gave
regions_text(g, page, concat_paragraphs) ==
    IF g.ret.exc # "none" THEN g
    ELSE Out(g.regions, Ok(page_text(page, g.ret.val, concat_paragraphs)), g.detect)

convert_page_to_text(regs, page, concat_paragraphs) ==
    IF page < 0 \/ page >= page_count THEN Out(regs, Ok(<<>>), <<>>)
    ELSE regions_text(get_regions(regs, page, DefaultMargins), page, concat_paragraphs)

(***************************************************************************)
(* The regions file.  A Python scalar carries its type: I(3), S("3"),      *)
(* B(TRUE).  A dict with string keys is a function on strings; the pages   *)
(* mapping is a function from scalar keys to lists of lists of scalars.    *)
(***************************************************************************)
I(n) == [int |-> n]
S(s) == [str |-> s]
B(b) == [bool |-> b]
\* type(v) and the bare value
TypeOf(v) == CHOOSE k \in DOMAIN v : TRUE
Val(v) == v[TypeOf(v)]

Restrict(d, keys) == [k \in DOMAIN d \cap keys |-> d[k]]

VersionFields == {"major", "minor", "patch"}
PdfFields == {"name", "checksum", "pages"}
MarginFields == {"left", "top", "right", "bottom", "ignore_images"}
SchemaFields == {"version", "pdf", "margins", "pages"}

\* the declared type of a field of a nested schema
FieldType(f) == IF f \in {"name", "checksum"} THEN "str"
                ELSE IF f = "ignore_images" THEN "bool" ELSE "int"

\* the fields a nested schema requires
RequiredOf(k) == IF k = "version" THEN VersionFields
                 ELSE IF k = "pdf" THEN {"checksum", "pages"}
                 ELSE MarginFields

FieldsOf(k) == IF k = "version" THEN VersionFields
               ELSE IF k = "pdf" THEN PdfFields
               ELSE MarginFields

\* int("..."), for the numerals that occur
Numerals == {"-1", "0", "1", "2", "3"}
ParseInt(s) == CASE s = "-1" -> -1 [] s = "0" -> 0 [] s = "1" -> 1 [] s = "2" -> 2 [] s = "3" -> 3

\* fields.Int / fields.Str / fields.Bool, deserializing
LoadOk(type, v) ==
    CASE type = "int" -> TypeOf(v) = "int" \/ (TypeOf(v) = "str" /\ Val(v) \in Numerals)
      [] type = "str" -> TypeOf(v) = "str"
      [] type = "bool" -> TypeOf(v) = "bool" \/ (TypeOf(v) = "int" /\ Val(v) \in {0, 1})

LoadVal(type, v) ==
    CASE type = "int" -> IF TypeOf(v) = "str" THEN I(ParseInt(Val(v))) ELSE v
      [] type = "str" -> v
      [] type = "bool" -> IF TypeOf(v) = "int" THEN B(Val(v) = 1) ELSE v

\* fields.Int / fields.Str / fields.Bool, serializing: int(v), str(v), bool(v),
\* for the values that occur
DumpVal(type, v) ==
    CASE type = "int" -> IF TypeOf(v) = "str" THEN I(ParseInt(Val(v))) ELSE v
      [] type = "str" -> v
      [] type = "bool" -> IF TypeOf(v) = "int" THEN B(Val(v) # 0) ELSE v

DumpRect(r) == <<I(r.x0), I(r.y0), I(r.x1), I(r.y1)>>

\* the pages mapping as it would be written if pages without regions were left out
DumpPages_nonempty(regs) ==
    [k \in {I(x) : x \in {y \in DOMAIN regs : regs[y] # <<>>}} |->
        [i \in 1..Len(regs[k.int]) |-> DumpRect(regs[k.int][i])]]

DumpPages(regs) ==
    [k \in {I(x) : x \in DOMAIN regs} |-> [i \in 1..Len(regs[k.int]) |-> DumpRect(regs[k.int][i])]]

DumpNested(k, d) == [f \in DOMAIN d \cap FieldsOf(k) |-> DumpVal(FieldType(f), d[f])]

\* the dump as it would be if it wrote the keys the schema does not declare too
schema_dump_all(obj) ==
    [k \in DOMAIN obj |->
        IF k = "pages" THEN DumpPages(obj[k])
        ELSE IF k \in SchemaFields THEN DumpNested(k, obj[k])
        ELSE obj[k]]

\* RegionsSchema().dump(obj): only the declared fields are written
schema_dump(obj) ==
    [k \in DOMAIN obj \cap SchemaFields |->
        IF k = "pages" THEN DumpPages(obj[k]) ELSE DumpNested(k, obj[k])]

\* the dict as it would be if the keys of extra_data won over the computed ones
serialize_regions_extra_wins(regs, extra_data) ==
    LET data == [version |-> [major |-> I(1), minor |-> I(0), patch |-> I(1)],
                 pdf |-> [name |-> S(DocName), checksum |-> S(DocChecksum),
                          pages |-> I(page_count)],
                 pages |-> regs]
    IN Out(regs, Ok(schema_dump(DictMerge(data, extra_data))), <<>>)

serialize_regions(regs, extra_data) ==
    LET data == [version |-> [major |-> I(1), minor |-> I(0), patch |-> I(1)],
                 pdf |-> [name |-> S(DocName), checksum |-> S(DocChecksum),
                          pages |-> I(page_count)],
                 pages |-> regs]
    IN Out(regs, Ok(schema_dump(DictMerge(extra_data, data))), <<>>)

(***************************************************************************)
(* Loading.  The data given to deserialize_regions is a dict, or a str     *)
(* holding JSON text (which may not parse).                                *)
(***************************************************************************)
DictData(d) == [kind |-> "dict", valid |-> TRUE, doc |-> d]
TextData(valid, d) == [kind |-> "str", valid |-> valid, doc |-> d]

\* a nested schema accepts the dict d
NestedOk(k, d, partial) ==
    \A f \in FieldsOf(k) :
        IF f \in DOMAIN d THEN LoadOk(FieldType(f), d[f])
        ELSE partial \/ f \notin RequiredOf(k)

LoadNested(k, d) == [f \in DOMAIN d \cap FieldsOf(k) |-> LoadVal(FieldType(f), d[f])]

\* fields.Dict(keys=Int, values=List(List(Int, validate=Length(equal=4))))
PagesOk(pg) ==
    \A key \in DOMAIN pg :
        /\ LoadOk("int", key)
        /\ \A i \in 1..Len(pg[key]) :
              /\ Len(pg[key][i]) = 4
              /\ \A c \in 1..4 : LoadOk("int", pg[key][i][c])

KeyInt(key) == LoadVal("int", key).int

LoadPages(pg) ==
    [k \in {KeyInt(key) : key \in DOMAIN pg} |->
        LET key == CHOOSE x \in DOMAIN pg : KeyInt(x) = k
        IN [i \in 1..Len(pg[key]) |-> [c \in 1..4 |-> LoadVal("int", pg[key][i][c]).int]]]

\* the post_load hook: every list of four integers becomes an IRect
make_pages(pages) ==
    [k \in DOMAIN pages |->
        [i \in 1..Len(pages[k]) |->
            IRect(pages[k][i][1], pages[k][i][2], pages[k][i][3], pages[k][i][4])]]

\* the fields of the document that the schema declares, loaded
load_fields(doc) ==
    [k \in DOMAIN doc \cap SchemaFields |->
        IF k = "pages" THEN make_pages(LoadPages(doc[k])) ELSE LoadNested(k, doc[k])]

\* the declared fields that are present pass validation
fields_ok(doc, partial) ==
    \A k \in DOMAIN doc \cap SchemaFields :
        IF k = "pages" THEN PagesOk(doc[k]) ELSE NestedOk(k, doc[k], partial)

\* Schema.load / Schema.loads; unknown keys are excluded, and the post_load
\* hook reads data["pages"]
schema_load(data, partial) ==
    IF data.kind = "str" /\ ~data.valid THEN Raise("JSONDecodeError", "json")
    ELSE IF ~fields_ok(data.doc, partial) THEN Raise("ValidationError", "schema")
    ELSE IF ~partial /\ {"version", "pdf", "pages"} \ DOMAIN data.doc # {}
    THEN Raise("ValidationError", "schema")
    ELSE IF "pages" \notin DOMAIN data.doc THEN Raise("KeyError", "pages")
    ELSE Ok(load_fields(data.doc))

\* get_version, r being what the partial load gave
version_of(r) ==
    IF r.exc # "none" THEN r
    ELSE IF "version" \notin DOMAIN r.val
    THEN Raise("ValidationError", "No version information found")
    ELSE IF ~(VersionFields \subseteq DOMAIN r.val["version"])
    THEN Raise("ValidationError", "Invalid version information")
    ELSE Ok(<<r.val["version"]["major"].int, r.val["version"]["minor"].int,
              r.val["version"]["patch"].int>>)

get_version(data) == version_of(schema_load(data, TRUE))

\* major != 1 or minor > 0
unsupported(ver) == ver.val[1] # 1 \/ ver.val[2] > 0

\* the checks on the loaded document; "" when it belongs to the open document
binding_error(result) ==
    IF result.val["pdf"]["checksum"].str # DocChecksum THEN "PDF file checksum mismatch"
    ELSE IF result.val["pdf"]["pages"].int # page_count THEN "PDF page count mismatch"
    ELSE ""

\* deserialize_regions as it would be if the cache were assigned before the
\* checksum and page-count checks
deserialize_regions_early(regs, data) ==
    IF get_version(data).exc # "none" THEN Out(regs, get_version(data), <<>>)
    ELSE IF unsupported(get_version(data))
    THEN Out(regs, Raise("ValidationError", "Unsupported region file version"), <<>>)
    ELSE IF schema_load(data, FALSE).exc # "none" THEN Out(regs, schema_load(data, FALSE), <<>>)
    ELSE IF binding_error(schema_load(data, FALSE)) # ""
    THEN Out(schema_load(data, FALSE).val["pages"],
             Raise("ValidationError", binding_error(schema_load(data, FALSE))), <<>>)
    ELSE Out(schema_load(data, FALSE).val["pages"], schema_load(data, FALSE), <<>>)

\* deserialize_regions as it would be without the page-count check
deserialize_regions_nopages(regs, data) ==
    IF get_version(data).exc # "none" THEN Out(regs, get_version(data), <<>>)
    ELSE IF unsupported(get_version(data))
    THEN Out(regs, Raise("ValidationError", "Unsupported region file version"), <<>>)
    ELSE IF schema_load(data, FALSE).exc # "none" THEN Out(regs, schema_load(data, FALSE), <<>>)
    ELSE IF schema_load(data, FALSE).val["pdf"]["checksum"].str # DocChecksum
    THEN Out(regs, Raise("ValidationError", "PDF file checksum mismatch"), <<>>)
    ELSE Out(schema_load(data, FALSE).val["pages"], schema_load(data, FALSE), <<>>)

\* deserialize_regions as it would be if the version were tested after the
\* checksum and the page count
deserialize_regions_late(regs, data) ==
    IF get_version(data).exc # "none" THEN Out(regs, get_version(data), <<>>)
    ELSE IF schema_load(data, FALSE).exc # "none" THEN Out(regs, schema_load(data, FALSE), <<>>)
    ELSE IF binding_error(schema_load(data, FALSE)) # ""
    THEN Out(regs, Raise("ValidationError", binding_error(schema_load(data, FALSE))), <<>>)
    ELSE IF unsupported(get_version(data))
    THEN Out(regs, Raise("ValidationError", "Unsupported region file version"), <<>>)
    ELSE Out(schema_load(data, FALSE).val["pages"], schema_load(data, FALSE), <<>>)

\* deserialize_regions as it would be if the file's pages were merged into the cache
deserialize_regions_merge(regs, data) ==
    IF get_version(data).exc # "none" THEN Out(regs, get_version(data), <<>>)
    ELSE IF unsupported(get_version(data))
    THEN Out(regs, Raise("ValidationError", "Unsupported region file version"), <<>>)
    ELSE IF schema_load(data, FALSE).exc # "none" THEN Out(regs, schema_load(data, FALSE), <<>>)
    ELSE IF binding_error(schema_load(data, FALSE)) # ""
    THEN Out(regs, Raise("ValidationError", binding_error(schema_load(data, FALSE))), <<>>)
    ELSE Out(DictMerge(regs, schema_load(data, FALSE).val["pages"]),
             schema_load(data, FALSE), <<>>)

\* the full load and what follows it, result being what the load gave
bind_loaded(regs, result) ==
    IF result.exc # "none" THEN Out(regs, result, <<>>)
    ELSE IF binding_error(result) # ""
    THEN Out(regs, Raise("ValidationError", binding_error(result)), <<>>)
    ELSE Out(result.val["pages"], result, <<>>)

\* deserialize_regions, ver being what get_version gave
load_checked(regs, data, ver) ==
    IF ver.exc # "none" THEN Out(regs, ver, <<>>)
    ELSE IF unsupported(ver)
    THEN Out(regs, Raise("ValidationError", "Unsupported region file version"), <<>>)
    ELSE bind_loaded(regs, schema_load(data, FALSE))

deserialize_regions(regs, data) == load_checked(regs, data, get_version(data))

(***************************************************************************)
(* The arguments the operations are called with.                           *)
(***************************************************************************)
PageArgs == -1..page_count
\* a page before the first and a page after the last
BadPages == {-1, page_count}
\* a page and a region index: every index on page 0, index 0 elsewhere
IndexArgs == ({0} \X (-1..MaxRegions)) \cup ((PageArgs \ {0}) \X {0})
\* a page and margins: a top margin on the pages of the document
MarginArgs ==
    (PageArgs \X {DefaultMargins}) \cup ((PageArgs \ BadPages) \X {Margins(9, 0, 0, 0, FALSE)})
\* a rectangle that reaches beyond the page, and one with left > right
GoodCoords == <<30, 30, 100, 100>>
BadCoords == <<20, 20, 10, 40>>
\* a rectangle to the right of the page: left < right until it is clamped
OffPageCoords == <<70, 20, 90, 40>>
AddArgs == (PageArgs \X {GoodCoords}) \cup {<<0, BadCoords>>, <<1, OffPageCoords>>}
ModifyArgs ==
    (IndexArgs \X {GoodCoords}) \cup {<<<<0, 0>>, BadCoords>>, <<<<1, 0>>, OffPageCoords>>}
ReorderArgs == (IndexArgs \X {1}) \cup (({0} \X (0..(MaxRegions - 1))) \X {-1, 2})
FindArgs == ((PageArgs \ BadPages) \X {<<10, 10>>, <<40, 40>>}) \cup (BadPages \X {<<40, 40>>})
TextArgs == (IndexArgs \X {FALSE}) \cup ({<<0, 0>>} \X {TRUE})
PageTextArgs == (PageArgs \X {FALSE}) \cup ({0} \X {TRUE})

FileMargins == [left |-> I(1), top |-> I(9), right |-> I(0), bottom |-> I(2),
                ignore_images |-> B(TRUE)]

\* what the main window passes (its margins), and a dict with a key of its own
\* and with the keys that serialize_regions computes
ExtraArgs ==
    {EmptyDict,
     [margins |-> FileMargins],
     [margins |-> FileMargins, note |-> S("draft"),
      version |-> [major |-> I(2), minor |-> I(0), patch |-> I(0)],
      pdf |-> [name |-> S("other.pdf"), checksum |-> S("sha1-of-other"), pages |-> I(7)],
      pages |-> EmptyDict]}

FileRect(a, b, c, d) == <<I(a), I(b), I(c), I(d)>>
FilePagesA == [k \in {I(0), I(1)} |-> IF k = I(0) THEN <<FileRect(30, 30, 59, 59)>> ELSE <<>>]
FilePagesB == [k \in {I(1)} |-> <<FileRect(5, 2, 60, 50), FileRect(30, 30, 59, 59)>>]
FilePagesText == [k \in {S("0")} |-> <<FileRect(30, 30, 59, 59)>>]
FilePagesShort == [k \in {I(0)} |-> <<<<I(1), I(2), I(30)>>>>]
FilePagesStray == [k \in {I(page_count)} |-> <<>>]

FileVersion(major, minor, patch) == [major |-> I(major), minor |-> I(minor), patch |-> I(patch)]
FilePdf(name, checksum, pages) == [name |-> S(name), checksum |-> S(checksum), pages |-> I(pages)]

BaseDoc == [version |-> FileVersion(1, 0, 1),
            pdf |-> FilePdf(DocName, DocChecksum, page_count),
            margins |-> FileMargins,
            pages |-> FilePagesA]

\* files that load, files of an unsupported version, files of another document,
\* and files that are not well-formed
GoodFiles ==
    {DictData(BaseDoc),
     DictData([version |-> FileVersion(1, -1, 3),
               pdf |-> Restrict(FilePdf("other.pdf", DocChecksum, page_count), {"checksum", "pages"}),
               pages |-> FilePagesB]),
     DictData([BaseDoc EXCEPT !.pdf = FilePdf("other.pdf", DocChecksum, page_count)]),
     TextData(TRUE, [BaseDoc EXCEPT !.pages = FilePagesText])}

VersionFiles ==
    {DictData([BaseDoc EXCEPT !.version = FileVersion(2, 0, 0)]),
     DictData([BaseDoc EXCEPT !.version = FileVersion(1, 1, 0)]),
     DictData([BaseDoc EXCEPT !.version = FileVersion(0, 0, 1),
                              !.pdf = FilePdf(DocName, "sha1-of-other", page_count + 1)])}

BindingFiles ==
    {DictData([BaseDoc EXCEPT !.pdf = FilePdf(DocName, "sha1-of-other", page_count)]),
     DictData([BaseDoc EXCEPT !.pdf = FilePdf(DocName, DocChecksum, page_count + 1)]),
     DictData([BaseDoc EXCEPT !.pdf = FilePdf(DocName, "sha1-of-other", page_count + 1)])}

BrokenFiles ==
    {TextData(FALSE, EmptyDict),
     DictData(Restrict(BaseDoc, {"version", "pdf"})),
     DictData(Restrict(BaseDoc, {"pdf", "pages"})),
     DictData([BaseDoc EXCEPT !.version = Restrict(@, {"major", "patch"})]),
     DictData([BaseDoc EXCEPT !.pages = FilePagesShort]),
     DictData([BaseDoc EXCEPT !.pdf = [@ EXCEPT !.checksum = I(5)]])}

\* a file of this document that lists a page the document does not have
StrayFiles == {DictData([BaseDoc EXCEPT !.pages = FilePagesStray])}

FileArgs == GoodFiles \cup VersionFiles \cup BindingFiles \cup BrokenFiles

(***************************************************************************)
(* The store as a state machine: one action per operation.                 *)
(***************************************************************************)
NoDet == [phase |-> "idle"]
\* the store on its own, without a main window
NoWindow == [pdf |-> "PDFFile"]

Init ==
    /\ regions = EmptyDict
    /\ op = [name |-> "open"]
    /\ ret = OkNone
    /\ detect = <<>>
    /\ lastGet = [on |-> FALSE, got |-> EmptyDict]
    /\ det = NoDet
    /\ win = NoWindow

\* a reading operation: what get_regions returned earlier stays on record
Read(o, out) ==
    /\ regions' = out.regions
    /\ ret' = out.ret
    /\ detect' = out.detect
    /\ op' = o
    /\ UNCHANGED <<lastGet, det, win>>

\* a mutating operation
Write(o, out) ==
    /\ regions' = out.regions
    /\ ret' = out.ret
    /\ detect' = out.detect
    /\ op' = o
    /\ lastGet' = [lastGet EXCEPT !.got = EmptyDict]
    /\ UNCHANGED <<det, win>>

\* the number of regions in the cache
RECURSIVE TotalLen(_)
TotalLen(regs) ==
    IF DOMAIN regs = {} THEN 0
    ELSE LET k == CHOOSE x \in DOMAIN regs : TRUE
         IN Len(regs[k]) + TotalLen(DictPop(regs, k))

\* get_regions: when the record is kept, the list returned goes on record
Got(page, m, out) ==
    /\ regions' = out.regions
    /\ ret' = out.ret
    /\ detect' = out.detect
    /\ op' = [name |-> "get_regions", page |-> page, margins |-> m,
              again |-> page \in DOMAIN lastGet.got]
    /\ lastGet' = IF lastGet.on /\ out.ret.exc = "none" /\ ~out.ret.none
                   THEN [lastGet EXCEPT !.got = DictSet(@, page, out.ret.val)]
                   ELSE lastGet
    /\ UNCHANGED <<det, win>>

GetRegions == \E a \in MarginArgs : Got(a[1], a[2], get_regions(regions, a[1], a[2]))

ClearAllRegions == Write([name |-> "clear_all_regions"], clear_all_regions(regions))

ClearRegions ==
    \E page \in PageArgs :
        Write([name |-> "clear_regions", page |-> page], clear_regions(regions, page))

MarkPageEmpty ==
    \E page \in PageArgs :
        Write([name |-> "mark_page_empty", page |-> page], mark_page_empty(regions, page))

MarkAllPagesEmpty == Write([name |-> "mark_all_pages_empty"], mark_all_pages_empty(regions))

RemoveRegion ==
    \E a \in IndexArgs :
        Write([name |-> "remove_region", page |-> a[1], region |-> a[2]],
              remove_region(regions, a[1], a[2]))

\* regions are added while the cache holds fewer than MaxRegions of them
AddRegion ==
    \E a \in AddArgs :
        LET page == a[1]
            c == a[2]
        IN /\ TotalLen(regions) < MaxRegions
           /\ Write([name |-> "add_region", page |-> page, coords |-> c],
                    add_region(regions, page, c[1], c[2], c[3], c[4]))

ModifyRegion ==
    \E b \in ModifyArgs :
        LET a == b[1]
            c == b[2]
        IN Write([name |-> "modify_region", page |-> a[1], region |-> a[2], coords |-> c],
                 modify_region(regions, a[1], a[2], c[1], c[2], c[3], c[4]))

ReorderRegion ==
    \E b \in ReorderArgs :
        LET a == b[1]
            direction == b[2]
        IN Write([name |-> "reorder_region", page |-> a[1], region |-> a[2],
                  direction |-> direction],
                 reorder_region(regions, a[1], a[2], direction))

FindRegion ==
    \E a \in FindArgs :
        LET page == a[1]
            pt == a[2]
        IN Read([name |-> "find_region", page |-> page, point |-> pt],
                find_region(regions, page, pt[1], pt[2]))

ConvertRegionToText ==
    \E b \in TextArgs :
        LET a == b[1]
            concat == b[2]
        IN Read([name |-> "convert_region_to_text", page |-> a[1], region |-> a[2],
                 concat_paragraphs |-> concat],
                convert_region_to_text(regions, a[1], a[2], concat))

ConvertPageToText ==
    \E a \in PageTextArgs :
        LET page == a[1]
            concat == a[2]
        IN Read([name |-> "convert_page_to_text", page |-> page, concat_paragraphs |-> concat],
                convert_page_to_text(regions, page, concat))

SerializeRegions ==
    \E extra \in ExtraArgs :
        Read([name |-> "serialize_regions", extra_data |-> extra],
             serialize_regions(regions, extra))

\* loading a file from disk, or the dict serialize_regions has just produced
Load(data) ==
    Write([name |-> "deserialize_regions", data |-> data], deserialize_regions(regions, data))

DeserializeRegions ==
    \/ \E data \in FileArgs : Load(data)
    \/ \E e \in ExtraArgs : Load(DictData(serialize_regions(regions, e).ret.val))

Next ==
    \/ GetRegions
    \/ ClearAllRegions
    \/ ClearRegions
    \/ MarkPageEmpty
    \/ MarkAllPagesEmpty
    \/ RemoveRegion
    \/ AddRegion
    \/ ModifyRegion
    \/ ReorderRegion
    \/ FindRegion
    \/ ConvertRegionToText
    \/ ConvertPageToText
    \/ SerializeRegions
    \/ DeserializeRegions

Spec == Init /\ [][Next]_vars

\* the store when the files at hand include one that lists a page the document
\* does not have
LoadStray == \E data \in StrayFiles : Load(data)

StrayNext ==
    \/ Next
    \/ LoadStray

StraySpec == Init /\ [][StrayNext]_vars

(***************************************************************************)
(* The detector on its own: column_boxes run step by step on pages made    *)
(* of a few text blocks.  The store stays as constructed.                  *)
(***************************************************************************)
MaxBlocks == 3

\* a column, a box inside it, a box across its corner, a second column, a box
\* beside the first column with its top and bottom, a line of sideways text,
\* and a block whose only line has one character
DetBlocks ==
    {H(IRect(5, 10, 25, 30)),
     H(IRect(10, 15, 20, 25)),
     H(IRect(15, 20, 40, 45)),
     H(IRect(35, 10, 55, 50)),
     H(IRect(35, 10, 55, 30)),
     <<Line(IRect(28, 5, 32, 55), "v", 5)>>,
     <<Line(IRect(5, 52, 6, 58), "h", 1)>>}

RECURSIVE SeqsUpTo(_, _)
SeqsUpTo(Items, n) ==
    IF n = 0 THEN {<<>>}
    ELSE LET shorter == SeqsUpTo(Items, n - 1)
         IN shorter \cup {Append(q, x) : q \in {s \in shorter : Len(s) = n - 1}, x \in Items}

\* a drawing behind the first column, an image over the second
DetPaths == {<<>>, <<IRect(0, 5, 30, 55)>>}
DetImages == {<<>>, <<IRect(34, 5, 56, 55)>>}

\* three blocks side by side whose bottoms step down by 10
RowBlocks ==
    {H(IRect(0, 5, 15, 30)),
     H(IRect(40, 6, 55, 40)),
     H(IRect(20, 7, 35, 50))}

\* plain pages of up to MaxBlocks blocks, pages of blocks side by side, and
\* two-block pages that also carry a drawing or an image
DetPageArgs ==
    {PlainPage(b) : b \in SeqsUpTo(DetBlocks, MaxBlocks) \cup SeqsUpTo(RowBlocks, MaxBlocks)}
    \cup {[width |-> PageWidth, height |-> PageHeight, paths |-> p, images |-> g, blocks |-> b] :
             p \in DetPaths, g \in DetImages, b \in SeqsUpTo(DetBlocks, 2)}

DetMarginArgs ==
    {DefaultMargins, Margins(12, 0, 0, 0, FALSE), Margins(0, 0, 0, 8, FALSE),
     Margins(0, 0, 0, 0, TRUE)}

DetInit ==
    /\ regions = EmptyDict
    /\ op = [name |-> "open"]
    /\ ret = OkNone
    /\ detect = <<>>
    /\ lastGet = [on |-> FALSE, got |-> EmptyDict]
    /\ det = NoDet
    /\ win = NoWindow

\* the detector after the candidates c were made: returning at once, or joining
Started(page, m, c) ==
    IF c.bboxes = <<>>
    THEN [phase |-> "done", page |-> page, margins |-> m, c |-> c, result |-> Ok(<<>>)]
    ELSE [phase |-> "join", page |-> page, margins |-> m, c |-> c,
          st |-> merge_start(c.bboxes), i |-> 1]

\* the call, up to the early return or the start of the join
DetectStart ==
    /\ det.phase = "idle"
    /\ \E page \in DetPageArgs, m \in DetMarginArgs :
          det' = Started(page, m, candidates(page, m.bottom, m.top, m.left, m.right,
                                             m.no_image_text))
    /\ UNCHANGED <<regions, op, ret, detect, lastGet, win>>

\* one iteration of the join loop
DetectJoin ==
    /\ det.phase = "join"
    /\ det.i <= Len(det.st.bboxes)
    /\ det' = [det EXCEPT !.st = merge_step(det.st, det.i, det.c.path_bboxes, det.c.vert_bboxes),
                          !.i = det.i + 1]
    /\ UNCHANGED <<regions, op, ret, detect, lastGet, win>>

\* the cleaning, and the return
DetectClean ==
    /\ det.phase = "join"
    /\ det.i > Len(det.st.bboxes)
    /\ det' = [phase |-> "done", page |-> det.page, margins |-> det.margins, c |-> det.c,
               result |-> clean_nblocks(det.st.nblocks)]
    /\ UNCHANGED <<regions, op, ret, detect, lastGet, win>>

\* the caller takes the result
DetectReturn ==
    /\ det.phase = "done"
    /\ det' = NoDet
    /\ UNCHANGED <<regions, op, ret, detect, lastGet, win>>

DetNext ==
    \/ DetectStart
    \/ DetectJoin
    \/ DetectClean
    \/ DetectReturn

DetSpec == DetInit /\ [][DetNext]_vars

\* the stepwise run computes what column_boxes computes
DetAgrees ==
    det.phase = "done" =>
        det.result = column_boxes(det.page, det.margins.bottom, det.margins.top,
                                  det.margins.left, det.margins.right, det.margins.no_image_text)

(***************************************************************************)
(* The store with a record of what get_regions has returned since the last *)
(* mutating operation.                                                     *)
(***************************************************************************)
HistInit ==
    /\ regions = EmptyDict
    /\ op = [name |-> "open"]
    /\ ret = OkNone
    /\ detect = <<>>
    /\ lastGet = [on |-> TRUE, got |-> EmptyDict]
    /\ det = NoDet
    /\ win = NoWindow

HistSpec == HistInit /\ [][Next]_vars

(***************************************************************************)
(* The main window (mainwindow.py): the fields that its handlers for       *)
(* opening, closing, paging, clearing, loading and saving read and write.  *)
(* The region cache is the cache of the window's PDFFile; a handler gives  *)
(* the window and the cache afterwards, the detector calls it made, what   *)
(* it returned, and the title of the error dialog it showed.               *)
(***************************************************************************)
PyNone == "None"

\* the events a run of the window handles
MaxEvents == 6

\* MainWindow.__init__ without a PDF on the command line; events counts the
\* events handled since
MainWindow ==
    [pdf |-> PyNone, regions_filename |-> PyNone, regions_modified |-> FALSE,
     op_mode |-> "NORMAL", current_page |-> 0, current_region |-> -1,
     margins |-> DefaultMargins, save_enabled |-> FALSE, events |-> 0]

\* the files the user can pick as a PDF: the document, a PDF without pages, a
\* name without a file, a file that may not be read, and a file that is no PDF
BlankName == "blank.pdf"
PdfFiles == {DocName, BlankName, "missing.pdf", "locked.pdf", "notes.txt"}

\* PDFFile.__init__(filename): the exception it raises, or "none"
PDFFile_init(filename) ==
    CASE filename = "missing.pdf" -> "FileNotFoundError"
      [] filename = "locked.pdf" -> "PermissionError"
      [] filename = "notes.txt" -> "ValueError"
      [] OTHER -> "none"

\* PDFFile.page_count of the window's document
PageCountOf(pdf) == IF pdf = DocName THEN page_count ELSE 0
ChecksumOf(pdf) == IF pdf = DocName THEN DocChecksum ELSE "sha1-of-blank"

Handled(w, regs, r, calls, error) ==
    [win |-> w, regions |-> regs, ret |-> r, detect |-> calls, error |-> error]

\* the handler returns at its guard
Stay(w, regs) == Handled(w, regs, OkNone, <<>>, PyNone)

\* the guard of the handlers: if not self._pdf or self._op_mode != OperationMode.NORMAL
Idle(w) == w.pdf = PyNone \/ w.op_mode # "NORMAL"

\* MainWindow._get_regions: the current page's list under the window's margins
window_get_regions(w, regs) ==
    IF w.pdf = PyNone \/ PageCountOf(w.pdf) = 0 THEN Out(regs, OkNone, <<>>)
    ELSE get_regions(regs, w.current_page, w.margins)

\* _update_enabled: self._action_save_regions.setEnabled(...)
update_enabled(w) ==
    [w EXCEPT !.save_enabled =
                  w.pdf # PyNone /\ w.regions_filename # PyNone /\ w.regions_modified]

\* MainWindow._update_all, and _update_enabled: they draw and count the list of
\* _get_regions, which fills the current page's entry when it is absent
update_all(w, regs) ==
    Handled(update_enabled(w), window_get_regions(w, regs).regions, OkNone,
            window_get_regions(w, regs).detect, PyNone)

close_pdf(w) ==
    [w EXCEPT !.pdf = PyNone, !.regions_filename = PyNone, !.regions_modified = FALSE,
              !.op_mode = "NORMAL", !.current_page = 0, !.current_region = -1,
              !.save_enabled = FALSE]

\* _open_pdf when the file did not open: the window c after _close_pdf, and
\* the document self._pdf is left with
open_failed(c, pdf) ==
    Handled([c EXCEPT !.pdf = pdf], EmptyDict, Ok(FALSE), <<>>, "Can't open PDF")

open_done(o) ==
    [update_all(o, EmptyDict) EXCEPT !.ret = Ok(TRUE)]

open_pdf(w, filename) ==
    IF PDFFile_init(filename) # "none" THEN open_failed(close_pdf(w), PyNone)
    ELSE IF PageCountOf(filename) = 0 THEN open_failed(close_pdf(w), filename)
    ELSE open_done([close_pdf(w) EXCEPT !.pdf = filename])

go_to_page(w, regs, page) ==
    IF Idle(w) \/ page < 0 \/ page >= PageCountOf(w.pdf) THEN Stay(w, regs)
    ELSE update_all([w EXCEPT !.current_page = page, !.current_region = -1], regs)

\* PDFFile.mark_page_empty of the window's document
marked_empty(w, regs) ==
    IF PageCountOf(w.pdf) = 0 THEN regs ELSE mark_page_empty(regs, w.current_page).regions

\* MainWindow._clear_regions
window_clear_regions(w, regs) ==
    IF Idle(w) THEN Stay(w, regs)
    ELSE update_all([w EXCEPT !.regions_modified = TRUE, !.current_region = -1],
                    marked_empty(w, regs))

\* the regions files the user can pick for loading (none of them can be
\* written): one with margins, one without, one of another document, and a
\* name without a file; "" stands for a dialog that was cancelled
LoadNames == {"", "a.json", "b.json", "other.json", "missing.json"}

RegionFile(filename) ==
    CASE filename = "a.json" -> TextData(TRUE, BaseDoc)
      [] filename = "b.json" ->
            TextData(TRUE, [version |-> FileVersion(1, 0, 0),
                            pdf |-> FilePdf(DocName, DocChecksum, page_count),
                            pages |-> FilePagesB])
      [] OTHER -> TextData(TRUE, [BaseDoc EXCEPT !.pdf = FilePdf("other.pdf", "sha1-of-other",
                                                                page_count)])

\* the margin widgets after setValue / setCheckState with the file's margins
loaded_margins(w, d) ==
    IF "margins" \notin DOMAIN d THEN w.margins
    ELSE Margins(d["margins"]["top"].int, d["margins"]["bottom"].int,
                 d["margins"]["left"].int, d["margins"]["right"].int,
                 d["margins"]["ignore_images"].bool)

\* _load_regions_internal up to the call of deserialize_regions
load_regions_internal(w, regs, filename) ==
    IF filename = "missing.json" THEN Out(regs, Raise("FileNotFoundError", filename), <<>>)
    ELSE IF PageCountOf(w.pdf) = 0
    THEN Out(regs, Raise("ValidationError", "PDF file checksum mismatch"), <<>>)
    ELSE deserialize_regions(regs, RegionFile(filename))

\* _load_regions after _load_regions_internal, out being what the load gave
load_done(w, out, filename) ==
    IF out.ret.exc # "none" THEN Handled(w, out.regions, OkNone, <<>>, "Can't load regions")
    ELSE update_all([w EXCEPT !.margins = loaded_margins(w, out.ret.val),
                              !.regions_modified = FALSE, !.regions_filename = filename,
                              !.current_region = -1],
                    out.regions)

load_regions(w, regs, filename) ==
    IF Idle(w) \/ filename = "" THEN Stay(w, regs)
    ELSE load_done(w, load_regions_internal(w, regs, filename), filename)

\* the names the user can pick for saving: a file that can be written and one
\* on a medium that cannot; "" stands for a dialog that was cancelled
SaveNames == {"", "out.json", "/media/cdrom/out.json"}

\* open(filename, "w") or json.dump raises
WriteFails(filename) == filename # "out.json"

\* the extra_data of _save_regions_internal
extra_data_of(w) ==
    [margins |-> [left |-> I(w.margins.left), top |-> I(w.margins.top),
                  right |-> I(w.margins.right), bottom |-> I(w.margins.bottom),
                  ignore_images |-> B(w.margins.no_image_text)]]

\* what _save_regions_internal writes: the serialized regions of the window's document
written(w, regs, filename) ==
    IF Idle(w) \/ filename \in {"", PyNone} \/ WriteFails(filename) THEN <<>>
    ELSE <<[serialize_regions(regs, extra_data_of(w)).ret.val EXCEPT
               !.pdf = FilePdf(w.pdf, ChecksumOf(w.pdf), PageCountOf(w.pdf))]>>

save_failed(w, regs) == Handled(w, regs, OkNone, <<>>, "Can't save regions")

\* _save_regions_as as it would be if it took the new name before writing
save_regions_as_early(w, regs, filename) ==
    IF Idle(w) \/ filename = "" THEN Stay(w, regs)
    ELSE IF WriteFails(filename) THEN save_failed([w EXCEPT !.regions_filename = filename], regs)
    ELSE update_all([w EXCEPT !.regions_modified = FALSE, !.regions_filename = filename], regs)

save_regions_as(w, regs, filename) ==
    IF Idle(w) \/ filename = "" THEN Stay(w, regs)
    ELSE IF WriteFails(filename) THEN save_failed(w, regs)
    ELSE update_all([w EXCEPT !.regions_modified = FALSE, !.regions_filename = filename], regs)

save_regions(w, regs) ==
    IF Idle(w) \/ w.regions_filename = PyNone THEN Stay(w, regs)
    ELSE IF WriteFails(w.regions_filename) THEN save_failed(w, regs)
    ELSE update_all([w EXCEPT !.regions_modified = FALSE], regs)

\* _first_page, _previous_page, _next_page, _last_page
first_page(w, regs) ==
    IF Idle(w) THEN Stay(w, regs)
    ELSE update_all([w EXCEPT !.current_page = 0, !.current_region = -1], regs)

previous_page(w, regs) ==
    IF Idle(w) \/ w.current_page = 0 THEN Stay(w, regs)
    ELSE update_all([w EXCEPT !.current_page = w.current_page - 1, !.current_region = -1], regs)

next_page(w, regs) ==
    IF Idle(w) \/ w.current_page >= PageCountOf(w.pdf) - 1 THEN Stay(w, regs)
    ELSE update_all([w EXCEPT !.current_page = w.current_page + 1, !.current_region = -1], regs)

last_page(w, regs) ==
    IF Idle(w) THEN Stay(w, regs)
    ELSE update_all([w EXCEPT !.current_page = PageCountOf(w.pdf) - 1, !.current_region = -1],
                    regs)

\* len(self._get_regions())
region_count(w, regs) == LenOrEmpty(window_get_regions(w, regs))

\* the end of the handlers that pick a region: if old_region != self._current_region
select_region(w, regs, region) ==
    IF region = w.current_region
    THEN Handled(w, window_get_regions(w, regs).regions, OkNone,
                 window_get_regions(w, regs).detect, PyNone)
    ELSE update_all([w EXCEPT !.current_region = region], regs)

\* _first_region, _next_region, _prev_region, _last_region
first_region(w, regs) ==
    IF Idle(w) THEN Stay(w, regs)
    ELSE select_region(w, regs, IF 0 >= region_count(w, regs) THEN region_count(w, regs) - 1
                                ELSE 0)

next_region(w, regs) ==
    IF Idle(w) THEN Stay(w, regs)
    ELSE select_region(w, regs, IF w.current_region + 1 >= region_count(w, regs)
                                THEN region_count(w, regs) - 1
                                ELSE w.current_region + 1)

last_region(w, regs) ==
    IF Idle(w) THEN Stay(w, regs)
    ELSE select_region(w, regs, region_count(w, regs) - 1)

prev_region(w, regs) ==
    IF Idle(w) \/ w.current_region = 0 THEN Stay(w, regs)
    ELSE IF w.current_region < 0 THEN last_region(w, regs)
    ELSE update_all([w EXCEPT !.current_region = w.current_region - 1], regs)

\* _up_region and _down_region after reorder_region, which gave out
moved(w, out) ==
    IF out.ret.val = w.current_region THEN Handled(w, out.regions, OkNone, out.detect, PyNone)
    ELSE update_all([w EXCEPT !.current_region = out.ret.val, !.regions_modified = TRUE],
                    out.regions)

\* _up_region (direction -1) and _down_region (direction 1)
move_region(w, regs, direction) ==
    IF Idle(w) \/ PageCountOf(w.pdf) = 0 THEN Stay(w, regs)
    ELSE moved(w, reorder_region(regs, w.current_page, w.current_region, direction))

\* _recalculate_regions: clear_regions raises when the page has no entry
recalculate_regions(w, regs) ==
    IF Idle(w) THEN Stay(w, regs)
    ELSE IF w.current_page \notin DOMAIN regs
    THEN Handled([w EXCEPT !.regions_modified = TRUE], regs, Raise("KeyError", "page"), <<>>,
                 PyNone)
    ELSE update_all([w EXCEPT !.regions_modified = TRUE, !.current_region = -1],
                    clear_regions(regs, w.current_page).regions)

recalculate_all_regions(w, regs) ==
    IF Idle(w) THEN Stay(w, regs)
    ELSE update_all([w EXCEPT !.regions_modified = TRUE, !.current_region = -1], EmptyDict)

\* _clear_all_regions
window_clear_all_regions(w, regs) ==
    IF Idle(w) THEN Stay(w, regs)
    ELSE update_all([w EXCEPT !.regions_modified = TRUE, !.current_region = -1],
                    IF PageCountOf(w.pdf) = 0 THEN regs ELSE mark_all_pages_empty(regs).regions)

\* the document's remove_region, add_region and modify_region on the current page
removed(w, regs) ==
    IF PageCountOf(w.pdf) = 0 THEN regs
    ELSE remove_region(regs, w.current_page, w.current_region).regions

added(w, regs, rect) ==
    IF PageCountOf(w.pdf) = 0 THEN regs
    ELSE add_region(regs, w.current_page, rect[1], rect[2], rect[3], rect[4]).regions

modified(w, regs, rect) ==
    IF PageCountOf(w.pdf) = 0 THEN regs
    ELSE modify_region(regs, w.current_page, w.current_region,
                       rect[1], rect[2], rect[3], rect[4]).regions

delete_region(w, regs) ==
    IF Idle(w) THEN Stay(w, regs)
    ELSE update_all([w EXCEPT !.regions_modified = TRUE, !.current_region = -1],
                    removed(w, regs))

\* _add_region and _redraw_region: the window starts to draw
window_add_region(w, regs) ==
    IF Idle(w) THEN Stay(w, regs)
    ELSE Handled([w EXCEPT !.op_mode = "ADD_REGION", !.current_region = -1], regs, OkNone,
                 <<>>, PyNone)

redraw_region(w, regs) ==
    IF Idle(w) \/ w.current_region < 0 THEN Stay(w, regs)
    ELSE Handled([w EXCEPT !.op_mode = "REDRAW_REGION"], regs, OkNone, <<>>, PyNone)

\* _modify_region as it would be without the test of the mode
window_modify_region_any_mode(w, regs, left, top, width, height) ==
    IF w.pdf = PyNone \/ w.current_region < 0 THEN Stay(w, regs)
    ELSE update_all([w EXCEPT !.regions_modified = TRUE],
                    modified(w, regs, <<left, top, left + width - 1, top + height - 1>>))

\* _modify_region: the spin boxes hold left, top, width and height
window_modify_region(w, regs, left, top, width, height) ==
    IF Idle(w) \/ w.current_region < 0 THEN Stay(w, regs)
    ELSE update_all([w EXCEPT !.regions_modified = TRUE],
                    modified(w, regs, <<left, top, left + width - 1, top + height - 1>>))

\* the rectangle of _fix_new_region is one that add_region and modify_region get
Drawn(rect) == rect[1] < rect[3] /\ rect[2] < rect[4]

\* _add_region_end; rect is <<left, top, right, bottom>> of _fix_new_region
add_region_end(w, regs, add_created_region, rect) ==
    IF w.pdf = PyNone THEN Stay(w, regs)
    ELSE IF add_created_region /\ Drawn(rect)
    THEN update_all([w EXCEPT !.regions_modified = TRUE, !.op_mode = "NORMAL",
                              !.current_region = -1],
                    added(w, regs, rect))
    ELSE update_all([w EXCEPT !.op_mode = "NORMAL", !.current_region = -1], regs)

\* _redraw_region_end
redraw_region_end(w, regs, use_created_region, rect) ==
    IF w.pdf = PyNone THEN Stay(w, regs)
    ELSE IF use_created_region /\ Drawn(rect)
    THEN update_all([w EXCEPT !.regions_modified = TRUE, !.op_mode = "NORMAL"],
                    modified(w, regs, rect))
    ELSE update_all([w EXCEPT !.op_mode = "NORMAL"], regs)

\* the click in normal mode: find_region of the document on the current page
found(w, regs, x, y) ==
    IF PageCountOf(w.pdf) = 0 THEN Out(regs, Ok(-1), <<>>)
    ELSE find_region(regs, w.current_page, x, y)

hit_test(w, out) ==
    IF out.ret.val = w.current_region THEN Handled(w, out.regions, OkNone, out.detect, PyNone)
    ELSE [update_all([w EXCEPT !.current_region = out.ret.val], out.regions)
             EXCEPT !.detect = out.detect \o @]

\* _handle_viewport_click: e is the mouse event, with the point on the page it
\* is at and the rectangle drawn so far
handle_viewport_click(w, regs, e) ==
    IF w.pdf = PyNone THEN Stay(w, regs)
    ELSE IF w.op_mode = "NORMAL"
    THEN IF e.type = "MouseButtonRelease" THEN hit_test(w, found(w, regs, e.x, e.y))
         ELSE Stay(w, regs)
    ELSE IF e.type = "MouseButtonRelease"
    THEN IF w.op_mode = "ADD_REGION" THEN add_region_end(w, regs, TRUE, e.rect)
         ELSE redraw_region_end(w, regs, TRUE, e.rect)
    ELSE IF e.button = "RightButton"
    THEN IF w.op_mode = "ADD_REGION" THEN add_region_end(w, regs, FALSE, e.rect)
         ELSE redraw_region_end(w, regs, FALSE, e.rect)
    ELSE IF w.op_mode = "ADD_REGION" THEN update_all([w EXCEPT !.current_region = -1], regs)
    ELSE update_all(w, regs)

\* the document's convert_page_to_text: what it leaves in the cache, and the
\* detector calls it makes
page_converted(w, regs, page) ==
    IF PageCountOf(w.pdf) = 0 THEN Out(regs, OkNone, <<>>)
    ELSE get_regions(regs, page, DefaultMargins)

\* _convert_page_to_text_print and _convert_page_to_text_file
convert_page(w, regs) ==
    IF w.pdf = PyNone THEN Stay(w, regs)
    ELSE Handled(w, page_converted(w, regs, w.current_page).regions, OkNone,
                 page_converted(w, regs, w.current_page).detect, PyNone)

\* the loop of _convert_all_pages_to_text_file_internal from page on, until
\* the pages end or the user cancels before page upto
RECURSIVE convert_pages(_, _, _, _, _)
convert_pages(w, regs, calls, page, upto) ==
    IF page >= PageCountOf(w.pdf) \/ page >= upto THEN Handled(w, regs, OkNone, calls, PyNone)
    ELSE convert_pages(w, page_converted(w, regs, page).regions,
                       calls \o page_converted(w, regs, page).detect, page + 1, upto)

\* _convert_all_pages_to_text_file
convert_all_pages(w, regs, upto) ==
    IF w.pdf = PyNone THEN Stay(w, regs) ELSE convert_pages(w, regs, <<>>, 0, upto)

\* showEvent after _load_regions_internal, out being what the load gave
shown(w, out) ==
    IF out.ret.exc # "none"
    THEN Handled([w EXCEPT !.regions_filename = PyNone], out.regions, OkNone, <<>>,
                 "Can't load regions")
    ELSE update_all([w EXCEPT !.margins = loaded_margins(w, out.ret.val)], out.regions)

\* showEvent: the window is shown, at the start or again after it was
\* minimized; content names what the regions file holds by then
show_event(w, regs, content) ==
    IF w.regions_filename = PyNone THEN Stay(w, regs)
    ELSE IF Idle(w) THEN Handled([w EXCEPT !.regions_filename = PyNone], regs, OkNone, <<>>,
                                 PyNone)
    ELSE shown(w, load_regions_internal(w, regs, content))

(***************************************************************************)
(* The main window as a state machine: one action per handler.             *)
(***************************************************************************)
WinInit ==
    /\ regions = EmptyDict
    /\ op = [name |-> "__init__"]
    /\ ret = OkNone
    /\ detect = <<>>
    /\ lastGet = [on |-> FALSE, got |-> EmptyDict]
    /\ det = NoDet
    /\ win = MainWindow

\* a handler has run: o names it and its inputs
Handle(o, out) ==
    /\ win.events < MaxEvents
    /\ win' = [out.win EXCEPT !.events = win.events + 1]
    /\ regions' = out.regions
    /\ ret' = out.ret
    /\ detect' = out.detect
    /\ op' = o @@ [error |-> out.error]
    /\ UNCHANGED <<lastGet, det>>

OpenPdf ==
    \E filename \in PdfFiles :
        Handle([name |-> "_open_pdf", filename |-> filename], open_pdf(win, filename))

ClosePdf ==
    Handle([name |-> "_close_pdf"], Handled(close_pdf(win), EmptyDict, OkNone, <<>>, PyNone))

GoToPage ==
    \E page \in -1..page_count :
        Handle([name |-> "_go_to_page", page |-> page], go_to_page(win, regions, page))

ClearPage == Handle([name |-> "_clear_regions"], window_clear_regions(win, regions))

LoadRegions ==
    \E filename \in LoadNames :
        Handle([name |-> "_load_regions", filename |-> filename],
               load_regions(win, regions, filename))

SaveRegionsAs ==
    \E filename \in SaveNames :
        Handle([name |-> "_save_regions_as", filename |-> filename,
                written |-> written(win, regions, filename)],
               save_regions_as(win, regions, filename))

SaveRegions ==
    Handle([name |-> "_save_regions", filename |-> win.regions_filename,
            written |-> written(win, regions, win.regions_filename)],
           save_regions(win, regions))

FirstPage == Handle([name |-> "_first_page"], first_page(win, regions))
PreviousPage == Handle([name |-> "_previous_page"], previous_page(win, regions))
NextPage == Handle([name |-> "_next_page"], next_page(win, regions))
LastPage == Handle([name |-> "_last_page"], last_page(win, regions))

FirstRegion == Handle([name |-> "_first_region"], first_region(win, regions))
NextRegion == Handle([name |-> "_next_region"], next_region(win, regions))
PrevRegion == Handle([name |-> "_prev_region"], prev_region(win, regions))
LastRegion == Handle([name |-> "_last_region"], last_region(win, regions))

UpRegion == Handle([name |-> "_up_region"], move_region(win, regions, -1))
DownRegion == Handle([name |-> "_down_region"], move_region(win, regions, 1))

RecalculateRegions ==
    Handle([name |-> "_recalculate_regions"], recalculate_regions(win, regions))

RecalculateAllRegions ==
    Handle([name |-> "_recalculate_all_regions"], recalculate_all_regions(win, regions))

ClearAllPages ==
    Handle([name |-> "_clear_all_regions"], window_clear_all_regions(win, regions))

DeleteRegion == Handle([name |-> "_delete_region"], delete_region(win, regions))

StartAddRegion == Handle([name |-> "_add_region"], window_add_region(win, regions))

StartRedrawRegion == Handle([name |-> "_redraw_region"], redraw_region(win, regions))

\* what the user sets a spin box of the region to: a rectangle in the page, and
\* a width of 0
SpinArgs == {<<30, 30, 30, 30>>, <<30, 30, 0, 30>>}

WindowModifyRegion ==
    \E v \in SpinArgs :
        Handle([name |-> "_modify_region", values |-> v],
               window_modify_region(win, regions, v[1], v[2], v[3], v[4]))

\* mouse events on the page view: presses of the left and the right button,
\* a release inside the first column with nothing drawn, and a release at
\* the page's corner with a rectangle drawn
NothingDrawn == <<0, 0, 0, 0>>
MouseEvents ==
    {[type |-> "MouseButtonPress", button |-> b, x |-> 10, y |-> 20, rect |-> NothingDrawn] :
        b \in {"LeftButton", "RightButton"}}
    \cup {[type |-> "MouseButtonRelease", button |-> "LeftButton", x |-> 10, y |-> 20,
           rect |-> NothingDrawn],
          [type |-> "MouseButtonRelease", button |-> "LeftButton", x |-> 59, y |-> 1,
           rect |-> <<30, 30, 59, 59>>]}

\* the page's list can take one more region
Room ==
    win.current_page \in DOMAIN regions => Len(regions[win.current_page]) < MaxRegions

ViewportClick ==
    \E e \in MouseEvents :
        /\ (win.op_mode = "ADD_REGION" /\ e.type = "MouseButtonRelease") => Room
        /\ Handle([name |-> "_handle_viewport_click", event |-> e],
                  handle_viewport_click(win, regions, e))

ConvertPage == Handle([name |-> "_convert_page_to_text_print"], convert_page(win, regions))

ConvertAllPages ==
    \E upto \in 0..page_count :
        Handle([name |-> "_convert_all_pages_to_text_file", upto |-> upto],
               convert_all_pages(win, regions, upto))

\* what the file named by _regions_filename holds when the window is shown: a
\* file the window has written may have been replaced or removed since
ShownFiles(filename) ==
    IF filename = "out.json" THEN LoadNames \ {""} ELSE {filename}

ShowEvent ==
    \E content \in ShownFiles(win.regions_filename) :
        Handle([name |-> "showEvent", content |-> content],
               show_event(win, regions, content))

WinNext ==
    \/ OpenPdf
    \/ ClosePdf
    \/ GoToPage
    \/ ClearPage
    \/ LoadRegions
    \/ SaveRegionsAs
    \/ SaveRegions
    \/ FirstPage
    \/ PreviousPage
    \/ NextPage
    \/ LastPage
    \/ FirstRegion
    \/ NextRegion
    \/ PrevRegion
    \/ LastRegion
    \/ UpRegion
    \/ DownRegion
    \/ RecalculateRegions
    \/ RecalculateAllRegions
    \/ ClearAllPages
    \/ DeleteRegion
    \/ StartAddRegion
    \/ StartRedrawRegion
    \/ WindowModifyRegion
    \/ ViewportClick
    \/ ConvertPage
    \/ ConvertAllPages
    \/ ShowEvent

WinSpec == WinInit /\ [][WinNext]_vars

(***************************************************************************)
(* Properties of the region cache.                                         *)
(***************************************************************************)
\* the pages the detector was run on in the last operation
Detected == {detect[i].page : i \in 1..Len(detect)}

\* C1, as stated: a page that has a cache entry keeps it, and the detector is
\* not run for it, under every operation except clear_regions(page) and
\* clear_all_regions.
C1_KeptExceptClear ==
    [][\A p \in DOMAIN regions :
          /\ p \notin Detected'
          /\ (/\ ~(op'.name = "clear_regions" /\ op'.page = p)
              /\ op'.name # "clear_all_regions")
             => p \in DOMAIN regions']_vars

\* C1, amended: a page that has a cache entry keeps it, and the detector is not
\* run for it, under every operation except clear_regions(page),
\* clear_all_regions and a deserialize_regions that succeeds.
C1_KeptExceptClearAndLoad ==
    [][\A p \in DOMAIN regions :
          /\ p \notin Detected'
          /\ (/\ ~(op'.name = "clear_regions" /\ op'.page = p)
              /\ op'.name # "clear_all_regions"
              /\ ~(op'.name = "deserialize_regions" /\ ret'.exc = "none"))
             => p \in DOMAIN regions']_vars

\* a text conversion has read a page that is cached with no regions, and the
\* detector was not run
C1_Witness ==
    /\ op.name = "convert_page_to_text"
    /\ op.page \in DOMAIN regions
    /\ regions[op.page] = <<>>
    /\ detect = <<>>

\* C2: for a valid page, get_regions runs the detector at most once and only
\* when the page is absent, and a call that follows an earlier call with no
\* mutating operation in between returns the list the earlier call returned,
\* whatever margins it is given, without running the detector.
C2_GetRegionsIdempotent ==
    [][op'.name = "get_regions" /\ op'.page \in 0..(page_count - 1) =>
          /\ Len(detect') <= 1
          /\ (detect' # <<>> => op'.page \notin DOMAIN regions)
          /\ (op'.page \in DOMAIN lastGet.got =>
                /\ ret' = Ok(lastGet.got[op'.page])
                /\ detect' = <<>>)]_vars

\* a repeated call with margins under which the detector finds something else
\* than the list returned
C2_Witness ==
    /\ op.name = "get_regions"
    /\ op.again
    /\ op.margins # DefaultMargins
    /\ ret.exc = "none"
    /\ column_boxes(DocPage(op.page), op.margins.bottom, op.margins.top, op.margins.left,
                    op.margins.right, op.margins.no_image_text) # Ok(ret.val)

\* the operations that take a page or a region index
IndexedOps ==
    {"clear_regions", "mark_page_empty", "add_region", "modify_region", "remove_region",
     "reorder_region", "find_region", "get_regions", "convert_region_to_text",
     "convert_page_to_text"}

\* C3, as stated: no operation that takes a page or a region index raises an
\* error, whatever the page, the index and the state of the cache.
C3_IndexedOpsNeverRaise == op.name \in IndexedOps => ret.exc = "none"

(***************************************************************************)
(* Properties of the detector.                                             *)
(***************************************************************************)
\* C4, as stated: column_boxes returns a list for every page, and a non-empty
\* list whenever the block-building step made at least one candidate.
C4_DetectorNeverFails ==
    det.phase = "done" =>
        /\ det.result.exc = "none"
        /\ (det.c.made # <<>> => det.result.val # <<>>)

\* C5, as stated: any two distinct rectangles of the list column_boxes returns
\* have an empty intersection.
C5_ResultNonOverlapping ==
    det.phase = "done" /\ det.result.exc = "none" =>
        \A i, j \in 1..Len(det.result.val) :
            i # j => is_empty(RectAnd(det.result.val[i], det.result.val[j]))

(***************************************************************************)
(* Properties of loading and saving.                                       *)
(***************************************************************************)
UnsupportedVersion == "Unsupported region file version"

\* files that are well-formed and of a supported version
BoundFiles == GoodFiles \cup BindingFiles

\* the page a key of the file's pages mapping stands for
FileKey(k) == IF TypeOf(k) = "int" THEN k.int ELSE ParseInt(k.str)

\* the rectangles a list of the file stands for
FileList(l) == [i \in 1..Len(l) |-> IRect(l[i][1].int, l[i][2].int, l[i][3].int, l[i][4].int)]

\* C6: whenever deserialize_regions fails, for whatever reason, the cache after
\* the call equals the cache before the call.
C6_LoadAllOrNothing ==
    [][op'.name = "deserialize_regions" /\ ret'.exc # "none" => regions' = regions]_vars

\* a load has failed on the checksum while the cache held regions
C6_Witness ==
    /\ op.name = "deserialize_regions"
    /\ ret.msg = "PDF file checksum mismatch"
    /\ \E p \in DOMAIN regions : regions[p] # <<>>

\* C7: for a well-formed file of a supported version, deserialize_regions
\* succeeds exactly when the file's checksum equals the document's and the
\* file's page count equals the document's, whatever pdf.name is (or when it is
\* missing), and fails with a validation error otherwise.
C7_DocumentBinding ==
    [][op'.name = "deserialize_regions" /\ op'.data \in BoundFiles =>
          LET pdf == op'.data.doc["pdf"]
          IN IF pdf["checksum"] = S(DocChecksum) /\ pdf["pages"] = I(page_count)
             THEN ret'.exc = "none"
             ELSE /\ ret'.exc = "ValidationError"
                  /\ ret'.msg \in {"PDF file checksum mismatch", "PDF page count mismatch"}]_vars

\* a load has failed on the page count of a file that has the document's checksum
C7_Witness ==
    /\ op.name = "deserialize_regions"
    /\ op.data \in BindingFiles
    /\ op.data.doc["pdf"]["checksum"] = S(DocChecksum)
    /\ ret.exc = "ValidationError"
    /\ ret.msg = "PDF page count mismatch"

\* C8: for a file that is well-formed apart from its version, deserialize_regions
\* fails with the unsupported-version error when major # 1 or minor > 0, also
\* when the checksum and the page count do not match; with major = 1 and
\* minor <= 0 the version is accepted, whatever the patch.
C8_VersionGate ==
    [][op'.name = "deserialize_regions" /\ op'.data \in BoundFiles \cup VersionFiles =>
          LET v == op'.data.doc["version"]
          IN IF v["major"].int # 1 \/ v["minor"].int > 0
             THEN ret' = Raise("ValidationError", UnsupportedVersion)
             ELSE ret'.msg # UnsupportedVersion]_vars

\* a file of major version 0 with another checksum and page count has been
\* refused for its version
C8_Witness ==
    /\ op.name = "deserialize_regions"
    /\ op.data \in VersionFiles
    /\ op.data.doc["pdf"]["checksum"] # S(DocChecksum)
    /\ op.data.doc["pdf"]["pages"] # I(page_count)
    /\ ret = Raise("ValidationError", UnsupportedVersion)

\* C9: loading what serialize_regions has just produced, for extra data with a
\* margins record, succeeds, leaves the cache as it was (the same pages, empty
\* ones included, with the same rectangles in the same order) and returns the
\* margins that were passed.
C9_RoundTrip ==
    [][\A e \in ExtraArgs :
          (/\ "margins" \in DOMAIN e
           /\ op'.name = "deserialize_regions"
           /\ op'.data = DictData(serialize_regions(regions, e).ret.val))
          => /\ ret'.exc = "none"
             /\ regions' = regions
             /\ "margins" \in DOMAIN ret'.val
             /\ ret'.val["margins"] = e["margins"]]_vars

\* a cache with an empty page and a page with regions has gone through a round trip
C9_Witness ==
    /\ op.name = "deserialize_regions"
    /\ ret.exc = "none"
    /\ op.data \notin FileArgs
    /\ "margins" \in DOMAIN ret.val
    /\ \E p, q \in DOMAIN regions : regions[p] = <<>> /\ Len(regions[q]) > 1

\* C10: after a deserialize_regions that succeeds, the pages present are exactly
\* the keys of the file's pages mapping, each page's list is the file's list in
\* file order, and the result carries the file's margins when the file has them.
C10_LoadReplacesCache ==
    [][op'.name = "deserialize_regions" /\ ret'.exc = "none" =>
          LET doc == op'.data.doc
              pg == doc["pages"]
          IN /\ DOMAIN regions' = {FileKey(k) : k \in DOMAIN pg}
             /\ \A k \in DOMAIN pg : regions'[FileKey(k)] = FileList(pg[k])
             /\ "margins" \in DOMAIN doc =>
                    "margins" \in DOMAIN ret'.val /\ ret'.val["margins"] = doc["margins"]]_vars

\* a file that holds page 1 only has been loaded: page 0 is absent
C10_Witness ==
    /\ op.name = "deserialize_regions"
    /\ ret.exc = "none"
    /\ DOMAIN op.data.doc["pages"] = {I(1)}
    /\ DOMAIN regions = {1}
    /\ Len(regions[1]) = 2

(***************************************************************************)
(* Properties of the editing operations.                                   *)
(***************************************************************************)
\* the number of regions the page has in the cache (none when it is absent)
LenOf(regs, page) == IF page \in DOMAIN regs THEN Len(regs[page]) ELSE 0

\* the operation named a page of the document and a region the page has
ValidIndex(regs, o) ==
    /\ o.page \in 0..(page_count - 1)
    /\ o.page \in DOMAIN regs
    /\ o.region \in 0..(Len(regs[o.page]) - 1)

\* C11, as stated: whatever the page, the index and the delta, reorder_region
\* returns a value in [0, len - 1], len being the number of regions of the page.
C11_ReturnClamped ==
    op.name = "reorder_region" =>
        ret.exc = "none" /\ ret.val \in 0..(LenOf(regions, op.page) - 1)

\* C11, amended: for a valid page and a valid index reorder_region returns a
\* value in [0, len - 1]; for any other page or index it returns the index it
\* was given.
C11_ReturnClampedIfValid ==
    op.name = "reorder_region" =>
        /\ ret.exc = "none"
        /\ IF ValidIndex(regions, op)
           THEN ret.val \in 0..(Len(regions[op.page]) - 1)
           ELSE ret.val = op.region

\* the last of several regions was asked to move further down and stayed last
C11_Witness ==
    /\ op.name = "reorder_region"
    /\ ValidIndex(regions, op)
    /\ Len(regions[op.page]) > 1
    /\ op.region + op.direction > Len(regions[op.page]) - 1
    /\ ret.val = Len(regions[op.page]) - 1

\* the list get_regions gives for the page (None for a page out of range)
ListOf(regs, page) == get_regions(regs, page, DefaultMargins).ret

\* the store after reorder_region(page, r, -1), r being what the operation
\* that has just run returned
MovedBack(regs, o, r) == reorder_region(regs, o.page, r.val, -1).regions

\* the region is the last of two or more
LastOfSeveral(regs, o) ==
    ValidIndex(regs, o) /\ Len(regs[o.page]) > 1 /\ o.region = Len(regs[o.page]) - 1

\* C12, as stated: reorder_region(page, index, +1) followed by
\* reorder_region(page, r, -1) on the index r it returned gives the page's list
\* back in its original order, for every page, list and index.
C12_ReorderInverse ==
    [][op'.name = "reorder_region" /\ op'.direction = 1 =>
          ListOf(MovedBack(regions', op', ret'), op'.page) = ListOf(regions, op'.page)]_vars

\* C12, amended: the two calls give the list back in its original order for
\* every page and index except the last index of a list of two or more regions;
\* there the first call moves nothing and the second swaps the last two regions.
C12_ReorderInverseUnlessLast ==
    [][op'.name = "reorder_region" /\ op'.direction = 1 =>
          IF LastOfSeveral(regions', op')
          THEN /\ ListOf(regions', op'.page) = ListOf(regions, op'.page)
               /\ ret'.val = op'.region
               /\ ListOf(MovedBack(regions', op', ret'), op'.page)
                    = Ok(Swap(regions'[op'.page], op'.region - 1, op'.region))
          ELSE ListOf(MovedBack(regions', op', ret'), op'.page) = ListOf(regions, op'.page)]_vars

\* a region has moved down past a different region, and moving it back up from
\* where it is now changes the list again
C12_Witness ==
    /\ op.name = "reorder_region"
    /\ op.direction = 1
    /\ ValidIndex(regions, op)
    /\ ret.val = op.region + 1
    /\ regions[op.page][ret.val] # regions[op.page][ret.val + 1]
    /\ MovedBack(regions, op, ret) # regions

\* the list s with the item at 0-based index i taken out and put in at index f
MoveTo(s, i, f) ==
    [k \in 1..Len(s) |->
        IF k = f + 1 THEN s[i + 1]
        ELSE IF i < f /\ k \in (i + 1)..f THEN s[k + 1]
        ELSE IF f < i /\ k \in (f + 2)..(i + 1) THEN s[k - 1]
        ELSE s[k]]

\* min(max(i + delta, 0), n - 1)
FinalIndex(i, delta, n) == Min(Max(i + delta, 0), n - 1)

\* the operation named a valid page and an index that is valid in the list the
\* page has, or gets from detection
ValidBefore(regs, o) ==
    /\ o.page \in 0..(page_count - 1)
    /\ o.region \in 0..(Len(ListOf(regs, o.page).val) - 1)

\* C13: for a valid page and a valid index i in a list of length n,
\* reorder_region(page, i, delta) returns f = min(max(i + delta, 0), n - 1) and
\* leaves the page's list as it was with the region formerly at i moved to f:
\* the regions between i and f have shifted by one towards i, the others have
\* stayed, and the list is a permutation of the original.
C13_ReorderMoves ==
    [][op'.name = "reorder_region" /\ ValidBefore(regions, op') =>
          LET before == ListOf(regions, op'.page).val
              f == FinalIndex(op'.region, op'.direction, Len(before))
          IN /\ ret' = Ok(f)
             /\ regions'[op'.page] = MoveTo(before, op'.region, f)
             /\ regions'[op'.page][f + 1] = before[op'.region + 1]
             /\ \E perm \in [1..Len(before) -> 1..Len(before)] :
                   /\ \A a, b \in 1..Len(before) : a # b => perm[a] # perm[b]
                   /\ \A a \in 1..Len(before) : regions'[op'.page][a] = before[perm[a]]]_vars

\* the first of three different regions has moved down by two
C13_Witness ==
    /\ op.name = "reorder_region"
    /\ op.direction = 2
    /\ ValidIndex(regions, op)
    /\ ret.val = op.region + 2
    /\ \A a, b \in 1..Len(regions[op.page]) :
          a # b => regions[op.page][a] # regions[op.page][b]

\* the coordinates, clamped into the page, have left >= right or top >= bottom
Degenerate(c) ==
    \/ Clamp(c[1], PageWidth) >= Clamp(c[3], PageWidth)
    \/ Clamp(c[2], PageHeight) >= Clamp(c[4], PageHeight)

\* C14: add_region and modify_region whose coordinates, clamped into the page,
\* have left >= right or top >= bottom leave the page's list of regions as it
\* was: no region is added and none is changed.
C14_ClampAndReject ==
    [][op'.name \in {"add_region", "modify_region"} /\ Degenerate(op'.coords) =>
          ListOf(regions', op'.page) = ListOf(regions, op'.page)]_vars

\* a rectangle that is degenerate only once clamped was given for a region the
\* page has
C14_Witness ==
    /\ op.name = "modify_region"
    /\ ValidIndex(regions, op)
    /\ op.coords[1] < op.coords[3] /\ op.coords[2] < op.coords[4]
    /\ Degenerate(op.coords)

\* C15, as stated: remove_region, modify_region and reorder_region called with
\* an index outside [0, len - 1] or a page outside the document leave the whole
\* store as it was, absent pages included, and do not run the detector.
C15_OutOfBoundsNoOp ==
    [][/\ op'.name \in {"remove_region", "modify_region", "reorder_region"}
       /\ ~ValidBefore(regions, op')
       => regions' = regions /\ detect' = <<>>]_vars

\* v brought into [0, hi]
Into(v, hi) == IF v < 0 THEN 0 ELSE IF v > hi THEN hi ELSE v

\* the rectangle of the coordinates brought into the page
ClampedRect(c) ==
    IRect(Into(c[1], PageWidth - 1), Into(c[2], PageHeight - 1),
          Into(c[3], PageWidth - 1), Into(c[4], PageHeight - 1))

\* the list the page has, or the list the detector finds when it has none
ListBefore(regs, page) ==
    IF page \in DOMAIN regs THEN regs[page]
    ELSE column_boxes(DocPage(page), 0, 0, 0, 0, FALSE).val

\* every page but this one is as it was
OthersKept(before, after, page) ==
    /\ DOMAIN after \ {page} = DOMAIN before \ {page}
    /\ \A q \in DOMAIN before \ {page} : after[q] = before[q]

\* C16: for a valid page and a rectangle that is not degenerate once clamped,
\* add_region appends exactly one region, the clamped rectangle, at the end of
\* the page's list; the regions the list had keep their values and positions,
\* the other pages are unchanged, and a page that was absent gets its list from
\* the detector first.
C16_AddAppends ==
    [][/\ op'.name = "add_region"
       /\ op'.page \in 0..(page_count - 1)
       /\ ~is_empty(ClampedRect(op'.coords))
       => /\ regions'[op'.page] = Append(ListBefore(regions, op'.page), ClampedRect(op'.coords))
          /\ OthersKept(regions, regions', op'.page)
          /\ (op'.page \notin DOMAIN regions) = (detect' # <<>>)
          /\ \A i \in 1..Len(detect') :
                detect'[i] = [page |-> op'.page, margins |-> DefaultMargins]]_vars

\* a rectangle reaching beyond the page was added to a page that was absent:
\* it follows the regions the detector found, cut to the page
C16_Witness ==
    /\ op.name = "add_region"
    /\ detect # <<>>
    /\ op.coords[3] > PageWidth - 1
    /\ Len(regions[op.page]) > 1
    /\ regions[op.page][Len(regions[op.page])] = IRect(30, 30, PageWidth - 1, PageHeight - 1)

\* C17: for a valid page and a valid index i, remove_region(page, i) makes the
\* page's list shorter by exactly one: the regions before i are unchanged, each
\* region formerly at k > i is now at k - 1, and the other pages are unchanged.
C17_RemoveShifts ==
    [][op'.name = "remove_region" /\ ValidBefore(regions, op') =>
          LET before == ListBefore(regions, op'.page)
              after == regions'[op'.page]
          IN /\ Len(after) = Len(before) - 1
             /\ \A k \in 1..op'.region : after[k] = before[k]
             /\ \A k \in (op'.region + 1)..Len(after) : after[k] = before[k + 1]
             /\ OthersKept(regions, regions', op'.page)]_vars

\* the first region of a cached page was removed and the page still has regions
C17_Witness ==
    /\ op.name = "remove_region"
    /\ op.region = 0
    /\ detect = <<>>
    /\ op.page \in DOMAIN regions
    /\ regions[op.page] # <<>>

\* C18: find_region(page, x, y) returns the smallest index, in stored order, of
\* a region of the page that contains the point, and -1 when no region contains
\* it or the page is outside the document; of overlapping regions the earlier
\* one wins.
C18_FindFirst ==
    [][op'.name = "find_region" =>
          /\ ret'.exc = "none"
          /\ IF op'.page \notin 0..(page_count - 1) THEN ret'.val = -1
             ELSE LET list == ListBefore(regions, op'.page)
                      holds(k) == PointIn(op'.point[1], op'.point[2], list[k])
                  IN IF \A k \in 1..Len(list) : ~holds(k) THEN ret'.val = -1
                     ELSE /\ ret'.val + 1 \in 1..Len(list)
                          /\ holds(ret'.val + 1)
                          /\ \A k \in 1..ret'.val : ~holds(k)]_vars

\* the point lies in the region found and in a later region as well
C18_Witness ==
    /\ op.name = "find_region"
    /\ ret.val >= 0
    /\ \E k \in (ret.val + 2)..Len(regions[op.page]) :
          PointIn(op.point[1], op.point[2], regions[op.page][k])

EndsEmpty(o, r, p) ==
    \/ o.name = "clear_regions" /\ o.page = p
    \/ o.name = "clear_all_regions"
    \/ o.name = "add_region" /\ o.page = p
    \/ o.name = "deserialize_regions" /\ r.exc = "none"

\* C20: after mark_page_empty(p) for a valid page p, and after
\* mark_all_pages_empty for every page of the document, the page is present
\* with an empty list; a page of the document that is present with an empty
\* list stays so under every
\* operation other than clear_regions(p), clear_all_regions, add_region on p
\* and a load that succeeds, and get_regions(p) then returns [] without running
\* the detector; mark_page_empty for a page outside the document changes
\* nothing.
C20_MarkedEmptyStays ==
    [][/\ op'.name = "mark_page_empty" =>
             IF op'.page \in 0..(page_count - 1)
             THEN op'.page \in DOMAIN regions' /\ regions'[op'.page] = <<>>
             ELSE regions' = regions
       /\ op'.name = "mark_all_pages_empty" =>
             \A p \in 0..(page_count - 1) : p \in DOMAIN regions' /\ regions'[p] = <<>>
       /\ \A p \in DOMAIN regions \cap 0..(page_count - 1) :
             regions[p] = <<>> /\ ~EndsEmpty(op', ret', p) =>
                /\ p \in DOMAIN regions' /\ regions'[p] = <<>>
                /\ p \notin Detected'
                /\ (op'.name = "get_regions" /\ op'.page = p => ret' = Ok(<<>>))]_vars

\* get_regions has returned [] without detection for a page on which the
\* detector finds regions, under margins
C20_Witness ==
    /\ op.name = "get_regions"
    /\ op.margins # DefaultMargins
    /\ ret = Ok(<<>>)
    /\ detect = <<>>
    /\ column_boxes(DocPage(op.page), 0, 0, 0, 0, FALSE).val # <<>>

(***************************************************************************)
(* Properties of clearing, saving and converting.                          *)
(***************************************************************************)
\* what the detector finds on the page with these margins
DetectWith(page, m) ==
    column_boxes(DocPage(page), m.bottom, m.top, m.left, m.right, m.no_image_text)

\* C21: clear_regions(p) on a page that is present removes the entry of p and
\* no other; a get_regions(p, margins) that comes next, p being a page of the
\* document, runs the detector again,
\* with the margins and the no_image_text of that call, and caches what it
\* finds.
C21_ClearForcesDetection ==
    [][/\ op'.name = "clear_regions" /\ op'.page \in DOMAIN regions =>
             /\ ret'.exc = "none"
             /\ DOMAIN regions' = DOMAIN regions \ {op'.page}
             /\ OthersKept(regions, regions', op'.page)
       /\ (/\ op.name = "clear_regions" /\ ret.exc = "none"
           /\ op.page \in 0..(page_count - 1)
           /\ op'.name = "get_regions" /\ op'.page = op.page) =>
             /\ detect' = <<[page |-> op'.page, margins |-> op'.margins]>>
             /\ ret' = DetectWith(op'.page, op'.margins)
             /\ regions'[op'.page] = ret'.val]_vars

\* a page has been cleared while another page stays cached, and the detector
\* finds something else on the cleared page under a top margin than without
C21_Witness ==
    /\ op.name = "clear_regions"
    /\ ret.exc = "none"
    /\ op.page \notin DOMAIN regions
    /\ DOMAIN regions # {}
    /\ DetectWith(op.page, Margins(9, 0, 0, 0, FALSE)) # DetectWith(op.page, DefaultMargins)

\* a region as the file holds it
IntList(r) == <<I(r.x0), I(r.y0), I(r.x1), I(r.y1)>>

\* C24: serialize_regions(extra_data) always produces version {major 1,
\* minor 0, patch 1}, pdf {name, checksum, pages = pageCount} of the open
\* document, and pages equal to the current cache with each region written as
\* a list of four integers [x0, y0, x1, y1]; when extra_data has a version,
\* pdf or pages key of its own, the computed value wins.
C24_SerializeComputed ==
    [][op'.name = "serialize_regions" =>
        /\ ret'.exc = "none" /\ ~ret'.none
        /\ ret'.val.version = [major |-> I(1), minor |-> I(0), patch |-> I(1)]
        /\ ret'.val.pdf = [name |-> S(DocName), checksum |-> S(DocChecksum),
                           pages |-> I(Len(DocPages))]
        /\ DOMAIN ret'.val.pages = {I(p) : p \in DOMAIN regions}
        /\ \A p \in DOMAIN regions :
              /\ Len(ret'.val.pages[I(p)]) = Len(regions[p])
              /\ \A i \in 1..Len(regions[p]) :
                    ret'.val.pages[I(p)][i] = IntList(regions[p][i])
        /\ regions' = regions]_vars

\* a cache with regions has been serialized with an extra_data that has its
\* own version, pdf and pages


C24_Witness ==
    /\ op.name = "serialize_regions"
    /\ {"version", "pdf", "pages"} \subseteq DOMAIN op.extra_data
    /\ op.extra_data.version # ret.val.version
    /\ \E p \in DOMAIN regions : Len(regions[p]) > 1
    /\ \E p \in DOMAIN regions : regions[p] = <<>>

ComputedKeys == {"version", "pdf", "pages"}

\* C25 as stated: every top-level key of extra_data other than version, pdf
\* and pages (margins or any other key) appears in the output of
\* serialize_regions with its value unchanged.
C25_ExtraKeysKept ==
    [][op'.name = "serialize_regions" =>
        \A k \in DOMAIN op'.extra_data \ ComputedKeys :
            /\ k \in DOMAIN ret'.val
            /\ ret'.val[k] = op'.extra_data[k]]_vars

\* C25, amended: of the top-level keys of extra_data other than version, pdf
\* and pages, the one the schema declares (margins, holding four integers and
\* a boolean) appears in the output of serialize_regions with its value
\* unchanged, and every other key is left out.
C25_MarginsKept ==
    [][op'.name = "serialize_regions" =>
        /\ DOMAIN ret'.val = ComputedKeys \cup (DOMAIN op'.extra_data \cap {"margins"})
        /\ "margins" \in DOMAIN op'.extra_data =>
              ret'.val["margins"] = op'.extra_data["margins"]]_vars

\* extra data with margins and a key of its own has been serialized
C25_Witness ==
    /\ op.name = "serialize_regions"
    /\ {"margins", "note"} \subseteq DOMAIN op.extra_data
    /\ "margins" \in DOMAIN ret.val
    /\ "note" \notin DOMAIN ret.val

\* the files that do not open as a document
FailingPdfFiles == PdfFiles \ {DocName}

\* C26: after a failed attempt to open a PDF (the file is missing, unreadable,
\* no valid PDF, or a PDF with zero pages) the application has reported the
\* error and has no document loaded: the main window's document reference is
\* None (so there is no region store), whatever document was open before.
C26_FailedOpenUnloads ==
    [][(op'.name = "_open_pdf" /\ op'.filename \in FailingPdfFiles) =>
          /\ ret' = Ok(FALSE)
          /\ op'.error = "Can't open PDF"
          /\ win'.pdf = PyNone]_vars

\* C28: a save of the regions file that fails on writing leaves the region
\* cache in memory unchanged, and leaves the current regions filename and the
\* modified flag as they were before the attempt.
C28_FailedSaveKeeps ==
    [][(/\ op'.name \in {"_save_regions", "_save_regions_as"}
        /\ op'.error = "Can't save regions")
       => /\ regions' = regions
          /\ win'.regions_filename = win.regions_filename
          /\ win'.regions_modified = win.regions_modified
          /\ op'.written = <<>>]_vars

\* saving changed regions of a loaded file under a new name has failed
C28_Witness ==
    /\ op.name = "_save_regions_as"
    /\ op.error = "Can't save regions"
    /\ win.regions_modified
    /\ win.regions_filename \notin {PyNone, op.filename}
    /\ \E p \in DOMAIN regions : regions[p] # <<>>

\* the operation that ran is convert_page_to_text for a page of the document
ConvertsPage(o) == o.name = "convert_page_to_text" /\ o.page \in 0..(page_count - 1)

\* text holds, one after another in the order of list, each region's text
\* followed by a newline
RECURSIVE TextInOrder(_, _, _)
TextInOrder(o, list, text) ==
    IF list = <<>> THEN text = <<>>
    ELSE LET first == convert_rect_to_text(o.page, list[1], o.concat_paragraphs) \o <<NL>>
         IN /\ Len(text) >= Len(first)
            /\ SubSeq(text, 1, Len(first)) = first
            /\ TextInOrder(o, SubSeq(list, 2, Len(list)), SubSeq(text, Len(first) + 1, Len(text)))

\* C27 as stated: convert_page_to_text(page) for a valid page returns the texts
\* of the page's regions concatenated in stored region order, and the output of
\* every valid page is terminated with a newline; for a page outside
\* [0, pageCount) it returns the empty string.
C27_PageTextNewline ==
    [][op'.name = "convert_page_to_text" =>
        /\ ret'.exc = "none"
        /\ IF ConvertsPage(op')
           THEN /\ TextInOrder(op', regions'[op'.page], ret'.val)
                /\ ret'.val # <<>>
                /\ ret'.val[Len(ret'.val)] = NL
           ELSE ret'.val = <<>>]_vars

\* C27, amended: convert_page_to_text(page) for a valid page returns the texts
\* of the page's regions concatenated in stored region order, each region's
\* text followed by a newline, so the output of a valid page with regions ends
\* with a newline and that of a valid page without regions is the empty
\* string; for a page outside [0, pageCount) it returns the empty string.
C27_PageTextInOrder ==
    [][op'.name = "convert_page_to_text" =>
        /\ ret'.exc = "none"
        /\ IF ConvertsPage(op')
           THEN /\ TextInOrder(op', regions'[op'.page], ret'.val)
                /\ IF regions'[op'.page] = <<>> THEN ret'.val = <<>>
                   ELSE ret'.val[Len(ret'.val)] = NL
           ELSE ret'.val = <<>>]_vars

\* a page whose two columns were put in the other order has been converted
C27_Witness ==
    /\ ConvertsPage(op)
    /\ Len(regions[op.page]) = 2
    /\ regions[op.page][1].x0 > regions[op.page][2].x0
    /\ ret.val[1] = Word(op.page, regions[op.page][1])
    /\ ret.val[Len(ret.val)] = NL

(***************************************************************************)
(* Properties of the detector's passes.                                    *)
(***************************************************************************)
\* the detector has made its candidates
HasCandidates == det.phase \in {"join", "done"}

\* the rectangle r with its right edge at x
ExtendedTo(r, x) == IRect(r.x0, r.y0, x, r.y1)

\* candidate k lies in no path box and no image box, and the rectangle temp
\* meets no path box, no box of vertical text, no image box and no other
\* candidate
FreeToExtend(c, k, temp) ==
    /\ in_bbox(c.sorted[k], c.path_bboxes) = 0
    /\ in_bbox(c.sorted[k], c.img_bboxes) = 0
    /\ ~intersects_bboxes(temp, c.path_bboxes \o c.vert_bboxes \o c.img_bboxes)
    /\ \A j \in 1..Len(c.sorted) : j # k => is_empty(RectAnd(temp, c.sorted[j]))

\* C22, as stated: a candidate in no path box and no image box whose extension
\* meets no obstacle and no other candidate gets its right edge set to the right
\* edge of the clip (the page's width less right_margin), whatever right_margin.
C22_ExtendsToClip ==
    HasCandidates =>
        \A k \in 1..Len(det.c.sorted) :
            LET edge == det.page.width - det.margins.right
            IN FreeToExtend(det.c, k, ExtendedTo(det.c.sorted[k], edge)) =>
                   det.c.bboxes[k] = ExtendedTo(det.c.sorted[k], edge)

\* C22, amended: such a candidate gets its right edge set to the page's width,
\* whatever right_margin.
C22_ExtendsToPageWidth ==
    HasCandidates =>
        \A k \in 1..Len(det.c.sorted) :
            FreeToExtend(det.c, k, ExtendedTo(det.c.sorted[k], det.page.width)) =>
                det.c.bboxes[k] = ExtendedTo(det.c.sorted[k], det.page.width)

\* under a right margin a candidate was extended past the clip, up to the
\* page's width
C22_Witness ==
    /\ HasCandidates
    /\ det.margins.right > 0
    /\ \E k \in 1..Len(det.c.sorted) :
          /\ det.c.sorted[k].x1 < det.page.width - det.margins.right
          /\ FreeToExtend(det.c, k, ExtendedTo(det.c.sorted[k], det.page.width))
          /\ det.c.bboxes[k].x1 = det.page.width

\* the page has no drawings and no images, and its text in the clip is two
\* blocks of horizontal text, a on the left of b with b's top and bottom
SideBySide(page, m, a, b) ==
    /\ page.paths = <<>> /\ page.images = <<>>
    /\ LET blocks == GetTextBlocks(page.blocks,
                                   PageClip(page, m.bottom, m.top, m.left, m.right))
       IN /\ Len(blocks) = 2
          /\ \A k \in 1..2 : \A l \in 1..Len(blocks[k]) :
                blocks[k][l].dir = "h" /\ blocks[k][l].chars > 1
          /\ {a, b} = {BlockBBox(blocks[1]), BlockBBox(blocks[2])}
    /\ a.y0 = b.y0 /\ a.y1 = b.y1 /\ a.x1 < b.x0

\* C23: on a page without images, paths and vertical text whose two blocks of
\* horizontal text A and B have the same top and bottom, with A.x1 < B.x0, the
\* detector returns exactly two regions: first the one that starts at A's left
\* and top, then the one that starts at B's left and top.
C23_ColumnsStaySeparate ==
    det.phase = "done" =>
        \A a, b \in {BlockBBox(det.page.blocks[k]) : k \in 1..Len(det.page.blocks)} :
            SideBySide(det.page, det.margins, a, b) =>
                /\ det.result.exc = "none"
                /\ Len(det.result.val) = 2
                /\ det.result.val[1].x0 = a.x0 /\ det.result.val[1].y0 = a.y0
                /\ det.result.val[2].x0 = b.x0 /\ det.result.val[2].y0 = b.y0

\* the detector has returned for a page whose first block is the right one of
\* two blocks side by side
C23_Witness ==
    /\ det.phase = "done"
    /\ Len(det.page.blocks) = 2
    /\ SideBySide(det.page, det.margins, BlockBBox(det.page.blocks[2]),
                  BlockBBox(det.page.blocks[1]))
    /\ Len(det.result.val) = 2


\* the working list when the extension pass comes to candidate k: the
\* candidates before it as the pass has left them, the others as sorted
WorkingList(c, k) == [j \in 1..Len(c.sorted) |-> IF j < k THEN c.bboxes[j] ELSE c.sorted[j]]

\* the pass has replaced candidate k by its extended rectangle
Extended(c, k) == c.bboxes[k] # c.sorted[k]

\* candidate k lies in no path box and no image box, and its extended
\* rectangle meets no path box, vertical-text box or image box
NoObstacle(c, k) ==
    /\ in_bbox(c.sorted[k], c.path_bboxes) = 0
    /\ in_bbox(c.sorted[k], c.img_bboxes) = 0
    /\ ~intersects_bboxes(c.bboxes[k], c.path_bboxes \o c.vert_bboxes \o c.img_bboxes)

\* C29 as stated: in the rightward-extension pass a candidate is replaced by
\* its extended rectangle only if the extended rectangle intersects no path
\* box, no vertical-text box, no image box and no other candidate box in the
\* working list (other candidates with the candidate's own coordinates and
\* candidates extended earlier in the pass included); candidates contained in
\* a path box or an image box are never extended.
C29_ExtensionVeto ==
    HasCandidates =>
        \A k \in 1..Len(det.c.sorted) :
            Extended(det.c, k) =>
                /\ NoObstacle(det.c, k)
                /\ \A j \in 1..Len(det.c.sorted) :
                      j # k => is_empty(RectAnd(det.c.bboxes[k], WorkingList(det.c, k)[j]))

\* C29, amended: in the rightward-extension pass a candidate is replaced by
\* its extended rectangle only if the extended rectangle intersects no path
\* box, no vertical-text box, no image box and no other candidate box in the
\* working list whose coordinates differ from the candidate's own (candidates
\* extended earlier in the pass included; a candidate with the candidate's own
\* coordinates does not block the extension); candidates contained in a path
\* box or an image box are never extended.
C29_ExtensionVetoOfOthers ==
    HasCandidates =>
        \A k \in 1..Len(det.c.sorted) :
            Extended(det.c, k) =>
                /\ NoObstacle(det.c, k)
                /\ \A j \in 1..Len(det.c.sorted) :
                      j # k => \/ WorkingList(det.c, k)[j] = det.c.sorted[k]
                               \/ is_empty(RectAnd(det.c.bboxes[k], WorkingList(det.c, k)[j]))

\* of two candidates with the same coordinates the first was extended past the
\* second, and the second, which no obstacle holds back, was not extended
\* because its extension would meet the extended first
C29_Witness ==
    /\ HasCandidates
    /\ Len(det.c.sorted) >= 2
    /\ det.c.sorted[1] = det.c.sorted[2]
    /\ Extended(det.c, 1) /\ ~Extended(det.c, 2)
    /\ NoObstacle(det.c, 2)
    /\ ~intersects_bboxes(ExtendedTo(det.c.sorted[2], det.page.width),
                          det.c.path_bboxes \o det.c.vert_bboxes \o det.c.img_bboxes)
    /\ ~is_empty(RectAnd(ExtendedTo(det.c.sorted[2], det.page.width), det.c.bboxes[1]))

\* a step of the merge pass: the join loop has handled candidate det.i
MergeStep == det.phase = "join" /\ det'.phase = "join" /\ det'.i = det.i + 1

\* the candidate the step handles
Candidate == det.st.bboxes[det.i]

\* the candidate and output block j overlap horizontally and lie in the same path box
SameColumn(j) ==
    /\ ~(det.st.nblocks[j].x1 < Candidate.x0 \/ Candidate.x1 < det.st.nblocks[j].x0)
    /\ in_bbox(det.st.nblocks[j], det.c.path_bboxes) = in_bbox(Candidate, det.c.path_bboxes)

\* the union of the candidate and output block j meets no vertical-text box
\* and none of the output blocks in others
FreeAmong(j, others) ==
    /\ ~intersects_bboxes(RectOr(Candidate, det.st.nblocks[j]), det.c.vert_bboxes)
    /\ \A k \in others :
          is_empty(RectAnd(RectOr(Candidate, det.st.nblocks[j]), det.st.nblocks[k]))

\* the union of the candidate and output block j meets none of the candidates in later
FreeOf(j, later) ==
    \A k \in later :
        \/ det.st.bboxes[k] = None
        \/ is_empty(RectAnd(RectOr(Candidate, det.st.nblocks[j]), det.st.bboxes[k]))

OtherBlocks(j) == (1..Len(det.st.nblocks)) \ {j}
LaterCandidates == (det.i + 1)..Len(det.st.bboxes)

\* the step has put the union in the place of output block j
Merged(j) ==
    det'.st.nblocks = [k \in 1..Len(det.st.nblocks) |->
                          IF k = j THEN RectOr(Candidate, det.st.nblocks[j])
                          ELSE det.st.nblocks[k]]

\* the step has left the output blocks in place and added the candidate
Appended ==
    /\ Len(det'.st.nblocks) > Len(det.st.nblocks)
    /\ \A k \in 1..Len(det'.st.nblocks) :
          det'.st.nblocks[k] = IF k <= Len(det.st.nblocks) THEN det.st.nblocks[k] ELSE Candidate

\* C30 as stated: in the merge pass an output block nbb is replaced by the
\* union of bb and nbb only if bb and nbb overlap horizontally, have the same
\* path-box membership index, and the union intersects no other output block,
\* no vertical-text box and no candidate not yet processed; the first output
\* block in list order that passes the target test is the one used, and
\* otherwise bb is appended as a new block.
C30_MergePrecondition ==
    [][MergeStep =>
        \/ Appended
        \/ \E j \in 1..Len(det.st.nblocks) :
              /\ Merged(j)
              /\ SameColumn(j)
              /\ FreeAmong(j, OtherBlocks(j))
              /\ FreeOf(j, LaterCandidates)
              /\ \A k \in 1..(j - 1) : ~(SameColumn(k) /\ FreeAmong(k, OtherBlocks(k)))]_vars


\* the output blocks other than j whose coordinates differ from block j's
UnlikeBlocks(j) == {k \in OtherBlocks(j) : det.st.nblocks[k] # det.st.nblocks[j]}
\* the candidates not yet processed whose coordinates differ from the candidate's
UnlikeCandidates == {k \in LaterCandidates : det.st.bboxes[k] # Candidate}

\* C30, amended: in the merge pass an output block nbb is replaced by the
\* union of bb and nbb only if bb and nbb overlap horizontally, have the same
\* path-box membership index, and the union intersects no vertical-text box,
\* no other output block whose coordinates differ from nbb's and no candidate
\* not yet processed whose coordinates differ from bb's; the first output
\* block in list order that passes the target test is the one used, and
\* otherwise bb is appended as a new block.
C30_MergePreconditionOfOthers ==
    [][MergeStep =>
        \/ Appended
        \/ \E j \in 1..Len(det.st.nblocks) :
              /\ Merged(j)
              /\ SameColumn(j)
              /\ FreeAmong(j, UnlikeBlocks(j))
              /\ FreeOf(j, UnlikeCandidates)
              /\ \A k \in 1..(j - 1) : ~(SameColumn(k) /\ FreeAmong(k, UnlikeBlocks(k)))]_vars

\* the merge pass, with candidates still to come, has put in the place of an
\* output block a union that is larger than every candidate
C30_Witness ==
    /\ det.phase = "join"
    /\ det.i > 1
    /\ det.i <= Len(det.st.bboxes)
    /\ \E j \in 1..Len(det.st.nblocks) :
          \A l \in 1..Len(det.c.bboxes) :
              /\ det.st.nblocks[j] # det.c.bboxes[l]
              /\ RectIn(det.c.bboxes[l], det.st.nblocks[j]) \/
                 is_empty(RectAnd(det.c.bboxes[l], det.st.nblocks[j]))

(***************************************************************************)
(* Properties of the cleaning and of the detector's result.                *)
(***************************************************************************)
\* the step that cleans the output of the merge pass and returns
CleanStep == det.phase = "join" /\ det'.phase = "done"

\* list without the blocks that equal the block just before them
AdjacentDedup(list) ==
    LET kept == {k \in 1..Len(list) : k = 1 \/ list[k] # list[k - 1]}
    IN [n \in 1..Cardinality(kept) |->
           list[CHOOSE k \in kept : Cardinality({l \in kept : l <= k}) = n]]

\* how often r occurs in list
Count(list, r) == Cardinality({k \in 1..Len(list) : list[k] = r})

\* a and b hold the same rectangles, each as often
SameBlocks(a, b) ==
    /\ Len(a) = Len(b)
    /\ \A k \in 1..Len(a) : Count(a, a[k]) = Count(b, a[k])

\* C31: the duplicate cleanup removes a block only when it is an exact
\* duplicate of the block just before it in the list: what the detector returns
\* holds the blocks of the merge pass without those duplicates (the row repair
\* only permutes them), so no two equal blocks follow one another, every
\* distinct rectangle is still there, and none is removed for another reason.
\* Stated of the detections that return a list.
C31_DedupAdjacentOnly ==
    [][(CleanStep /\ det'.result.exc = "none") =>
        SameBlocks(det'.result.val, AdjacentDedup(det.st.nblocks))]_vars


\* the list that enters the row repair: the merge output after the duplicate pass
Deduped(nblocks) ==
    IF Len(nblocks) < 2 THEN nblocks ELSE dedup_loop(nblocks, Len(nblocks) - 1)

\* index of the first block of the row of d that block k lies in: a row goes
\* on while the bottoms stay within 10 units of the bottom of its first block
RECURSIVE RowStart(_, _)
RowStart(d, k) ==
    IF k = 1 THEN 1
    ELSE IF Abs(d[k].y1 - d[RowStart(d, k - 1)].y1) > 10 THEN k ELSE RowStart(d, k - 1)

\* the positions of the row of d that starts at s
Row(d, s) == {k \in 1..Len(d) : RowStart(d, k) = s}

\* v permutes d inside its rows and has every row ordered by left edge
RowsRepaired(d, v) ==
    /\ Len(v) = Len(d)
    /\ \A k \in 1..Len(d) :
          Cardinality({l \in Row(d, RowStart(d, k)) : v[l] = d[k]})
              = Cardinality({l \in Row(d, RowStart(d, k)) : d[l] = d[k]})
    /\ \A k \in 1..(Len(d) - 1) :
          RowStart(d, k + 1) = RowStart(d, k) => v[k].x0 <= v[k + 1].x0

\* C32 as stated: in the list the detector returns, neighbours whose bottom
\* edges are within 10 units of each other lie in one run and so are ordered
\* by their left edges.
C32_RunsSorted ==
    (det.phase = "done" /\ det.result.exc = "none") =>
        \A k \in 1..(Len(det.result.val) - 1) :
            Abs(det.result.val[k].y1 - det.result.val[k + 1].y1) <= 10
                => det.result.val[k].x0 <= det.result.val[k + 1].x0

\* C32, amended: the rows are those of the list before the repair, and a row
\* holds the blocks whose bottoms are within 10 units of the bottom of the
\* row's first block; the returned list has each such row ordered by left
\* edge and differs from the list before the repair only by permutations
\* inside rows.
C32_RowsSortedFromFirst ==
    [][(CleanStep /\ det'.result.exc = "none") =>
        RowsRepaired(Deduped(det.st.nblocks), det'.result.val)]_vars

\* a detection whose repair swapped two candidates of one row
C32_Witness ==
    /\ det.phase = "done"
    /\ det.result.exc = "none"
    /\ \E k \in 1..(Len(det.result.val) - 1) :
          /\ det.result.val[k].x0 < det.result.val[k + 1].x0
          /\ Abs(det.result.val[k].y1 - det.result.val[k + 1].y1) <= 10
          /\ \E i, j \in 1..Len(det.c.bboxes) :
                /\ i < j
                /\ det.c.bboxes[i] = det.result.val[k + 1]
                /\ det.c.bboxes[j] = det.result.val[k]


\* the detector has made and sorted its candidates
Sorted == det.phase \in {"join", "done"}

\* b lies in no background box
Floating(b) == \A k \in 1..Len(det.c.path_bboxes) : ~RectIn(b, det.c.path_bboxes[k])

\* the first background box that b lies in is number n
Behind(b, n) ==
    /\ RectIn(b, det.c.path_bboxes[n])
    /\ \A k \in 1..(n - 1) : ~RectIn(b, det.c.path_bboxes[k])

\* a and b lie on the same background, or both on none
SameBackground(a, b) ==
    \/ Floating(a) /\ Floating(b)
    \/ \E n \in 1..Len(det.c.path_bboxes) : Behind(a, n) /\ Behind(b, n)

\* a is not below b, and not right of it at the same height
TopLeftOrder(a, b) == a.y0 < b.y0 \/ (a.y0 = b.y0 /\ a.x0 <= b.x0)

NothingToJoinOrRepair ==
    \A i, j \in 1..Len(det.c.bboxes) :
        i < j =>
            /\ \/ det.c.bboxes[i].x1 < det.c.bboxes[j].x0
               \/ det.c.bboxes[j].x1 < det.c.bboxes[i].x0
               \/ ~SameBackground(det.c.bboxes[i], det.c.bboxes[j])
            /\ Abs(det.c.bboxes[i].y1 - det.c.bboxes[j].y1) > 10

RECURSIVE UnionOf(_)
UnionOf(picked) ==
    LET k == MinOf(picked)
    IN IF picked = {k} THEN det.c.bboxes[k] ELSE RectOr(det.c.bboxes[k], UnionOf(picked \ {k}))

\* r is a candidate or the union of several candidates
MadeOfCandidates(r) ==
    \E picked \in SUBSET (1..Len(det.c.bboxes)) : picked # {} /\ r = UnionOf(picked)

\* C34: whenever the detector returns a list, every candidate box (as it is
\* after the extension pass) lies inside at least one returned rectangle, and
\* every returned rectangle is a candidate or a union of candidates.
C34_NoTextLost ==
    (det.phase = "done" /\ det.result.exc = "none") =>
        /\ \A k \in 1..Len(det.c.bboxes) :
              \E n \in 1..Len(det.result.val) : RectIn(det.c.bboxes[k], det.result.val[n])
        /\ \A n \in 1..Len(det.result.val) : MadeOfCandidates(det.result.val[n])

\* a detection that joined two candidates into one block and returned a third
\* candidate, which lies across that block, on its own
C34_Witness ==
    /\ det.phase = "done"
    /\ det.result.exc = "none"
    /\ Len(det.c.bboxes) = 3
    /\ \E n, m \in 1..Len(det.result.val) :
          /\ n # m
          /\ \A k \in 1..3 : det.result.val[n] # det.c.bboxes[k]
          /\ \E k \in 1..3 : det.result.val[m] = det.c.bboxes[k]
          /\ ~is_empty(RectAnd(det.result.val[n], det.result.val[m]))


(***************************************************************************)
(* Properties of the store as a whole.                                     *)
(***************************************************************************)
\* C35: whatever store operations ran, loads of files of this document
\* included, every page number that has an entry in the region cache is a page
\* of the document.
C35_CacheKeysArePages ==
    \A page \in DOMAIN regions : page \in 0..(page_count - 1)


(***************************************************************************)
(* Properties of the main window's handlers.                               *)
(***************************************************************************)
\* C36: every detector call a handler of the window makes is made with the
\* margins and the ignore-images setting of the window; no handler fills a
\* page's entry under other margins.
C36_DetectsWithWindowMargins ==
    [][\A k \in 1..Len(detect') : detect'[k].margins = win'.margins]_vars

\* the regions of the window's current page
CurrentList ==
    IF win.pdf # PyNone /\ win.current_page \in DOMAIN regions THEN regions[win.current_page]
    ELSE <<>>

\* C37: after every handler the current region is -1 or an index into the
\* list of the current page.
C37_SelectionValid ==
    win.current_region >= -1 /\ win.current_region < Len(CurrentList)

\* C38: after every handler of a window that holds a document the current
\* page has an entry in the region cache, and _recalculate_regions never finds
\* the entry absent.
C38_CurrentPageCached ==
    [][/\ win'.pdf # PyNone => win'.current_page \in DOMAIN regions'
       /\ op'.name = "_recalculate_regions" => ret'.exc = "none"]_vars

\* the handlers that return at once while the window draws
GuardedHandlers ==
    {"_go_to_page", "_first_page", "_previous_page", "_next_page", "_last_page",
     "_first_region", "_next_region", "_prev_region", "_last_region",
     "_up_region", "_down_region", "_delete_region", "_clear_regions", "_clear_all_regions",
     "_recalculate_regions", "_recalculate_all_regions", "_modify_region",
     "_load_regions", "_save_regions", "_save_regions_as"}

Drawing(w) == w.op_mode \in {"ADD_REGION", "REDRAW_REGION"}

\* the mouse event ends a drawing: a release, or a press of the right button
EndsDrawing(o) ==
    /\ o.name = "_handle_viewport_click"
    /\ o.event.type = "MouseButtonRelease" \/ o.event.button = "RightButton"

\* C39: while the window draws, the guarded handlers change neither the region
\* cache nor the current page, the current region, the regions filename or
\* the modified flag; the mode returns to NORMAL only with the mouse event
\* that ends the drawing or with opening or closing a PDF; and the window
\* starts to redraw only with a region selected.
C39_DrawingGuard ==
    [][/\ (Drawing(win) /\ op'.name \in GuardedHandlers) =>
             /\ regions' = regions
             /\ win'.current_page = win.current_page
             /\ win'.current_region = win.current_region
             /\ win'.regions_filename = win.regions_filename
             /\ win'.regions_modified = win.regions_modified
             /\ win'.op_mode = win.op_mode
       /\ (Drawing(win) /\ win'.op_mode = "NORMAL") =>
             EndsDrawing(op') \/ op'.name \in {"_open_pdf", "_close_pdf"}
       /\ (win.op_mode # "REDRAW_REGION" /\ win'.op_mode = "REDRAW_REGION") =>
             win.current_region >= 0 /\ win'.current_region = win.current_region]_vars

\* a guarded handler has returned at once while the window redraws the
\* selected region of a list that was edited before
C39_Witness ==
    /\ win.op_mode = "REDRAW_REGION"
    /\ op.name = "_delete_region"
    /\ win.current_region >= 0
    /\ win.regions_modified
    /\ CurrentList # <<>>

\* the handlers that edit the lists of pages
EditHandlers ==
    {"_handle_viewport_click", "_modify_region", "_delete_region", "_up_region",
     "_down_region", "_clear_regions", "_clear_all_regions", "_recalculate_regions",
     "_recalculate_all_regions"}

\* a page that had an entry has another list, or none
ListChanged ==
    \E p \in DOMAIN regions : p \notin DOMAIN regions' \/ regions'[p] # regions[p]

\* the handler that ran saved or loaded the regions, or opened or closed a PDF
ResetsModified(o) ==
    \/ o.name \in {"_save_regions", "_save_regions_as"} /\ o.written # <<>>
    \/ o.name = "_load_regions" /\ o.error = PyNone
    \/ o.name \in {"_open_pdf", "_close_pdf"}

\* C40: a handler that changes the list of a page that has one leaves the
\* modified flag true; the flag goes back to false only with a save or a load
\* through Load Regions that succeeds, or with opening or closing a PDF; and
\* the Save Regions action is enabled exactly when a regions filename is set
\* and the modified flag is true.
C40_ModifiedTracked ==
    [][/\ (op'.name \in EditHandlers /\ ListChanged) => win'.regions_modified
       /\ (win.regions_modified /\ ~win'.regions_modified) => ResetsModified(op')
       /\ win'.save_enabled = (win'.regions_filename # PyNone /\ win'.regions_modified)]_vars

====
